---- MODULE Spec2Model ----
(***************************************************************************)
(* A model of the greenlight movies API (nytro04/movies-api): the data     *)
(* layer's optimistic-concurrency update protocol, the token based         *)
(* authentication / activation flow, the authorization gates and the       *)
(* per-IP rate limiter.                                                    *)
(*                                                                         *)
(* The relational store is modelled as tables held in variables; every     *)
(* store call of a handler is one atomic step, so two handlers interleave  *)
(* exactly at the points where the Go code talks to the store.  A store    *)
(* call can also fail with a driver error (the `default: return err`       *)
(* branches); the environment chooses that with the input `fault`.         *)
(***************************************************************************)
EXTENDS Integers, Sequences, FiniteSets, TLC

VARIABLES
    movies,     \* table movies: id -> row, DOMAIN = ids of the stored rows
    lastID,     \* the bigserial sequence behind movies.id
    writers,    \* history: id -> sequence of requests that wrote (updated or deleted) the row
    req,        \* one record per movie request: position, local copy, response
    users,      \* table users: id -> row
    tokens,     \* table tokens: a set of rows (hash, user_id, expiry, scope)
    permissions, \* tables permissions and users_permissions: user id -> codes
    now,        \* the clock, time.Now()
    lastRand,   \* how many random values crypto/rand has handed out
    issued,     \* history: the tokens handed out, with their time of issue
    burned,     \* history: the activation tokens a successful activation saw
    areq,       \* the user / token / guarded-route requests being handled
    out,        \* the request that has just been answered, with its response
    limiter,    \* config.limiter: enabled, rate and burst
    clients,    \* the map of rateLimit: ip -> limiter and lastSeen
    clock,      \* time.Now() for the rate limiter, in minutes
    lastSweep,  \* when the sweeping goroutine last woke up
    hist,       \* history: per ip, the requests that went through rateLimit
    trustedOrigins, \* config.cors.trustedOrigins
    plog,       \* history: the requests that came through recoverPanic
    regs,       \* the registration requests being handled and answered
    srv,        \* the http.Server of serve: "new", "listening", "closed"
    inflight,   \* the requests being handled
    wg,         \* app.wg, the counter of the background tasks
    tasks,      \* the goroutines started by background
    bglog,      \* what the background tasks logged
    crashed,    \* a panic that nothing recovered has ended the process
    sigpc,      \* where the goroutine of serve that waits for the signal is
    mainpc,     \* where serve is
    ret,        \* what serve returned
    listed,     \* the last GET /v1/movies request and its answer
    chain,      \* the request on its way through the middleware chain
    expvars,    \* the expvar counters of metrics
    mu,         \* the sync.Mutex of rateLimit, and the goroutine that locked it
    lk          \* where the goroutines that use the map of rateLimit are

movieVars == <<movies, lastID, writers, req>>

authVars == <<users, tokens, permissions, now, lastRand, issued, burned, areq, out>>

rateVars == <<limiter, clients, clock, lastSweep, hist>>

pipeVars == <<trustedOrigins, plog>>

regVars == <<regs>>

serveVars == <<srv, inflight, wg, tasks, bglog, crashed, sigpc, mainpc, ret>>

listVars == <<listed>>

chainVars == <<chain, expvars>>

lockVars == <<mu, lk>>

vars == <<movies, lastID, writers, req, users, tokens, permissions, now, lastRand,
          issued, burned, areq, out, limiter, clients, clock, lastSweep, hist,
          trustedOrigins, plog, regs, srv, inflight, wg, tasks, bglog, crashed,
          sigpc, mainpc, ret, listed, chain, expvars, mu, lk>>

(***************************************************************************)
(* Bounds                                                                  *)
(***************************************************************************)
MaxReq == 3          \* movie requests in one behaviour
MaxMovieID == 1      \* ids the serial may hand out

NowYear == 2024      \* time.Now().Year() seen by ValidateMovie

MaxAReq == 2         \* user, token and guarded-route requests in one behaviour
MaxTime == 3         \* days the clock runs

MaxRReq == 5         \* requests that go through the rate limiter in one behaviour
MaxClock == 4        \* minutes the rate limiter's clock runs
MaxPeriod == 4       \* the slowest rate: one request per so many minutes
MaxBurst == 2        \* the largest burst
MaxPReq == 2         \* requests that come through recoverPanic in one behaviour
MaxReg == 2          \* registration requests in one behaviour
MaxInflight == 2     \* requests handled at the same time
MaxTasks == 2        \* background tasks in one behaviour
MaxPage == 3         \* the largest page a client asks for
MaxCReq == 3         \* requests that go through the whole chain in one behaviour
MaxLReq == 2         \* requests that go through rateLimit statement by statement

Reqs == 1..MaxReq
AReqs == 1..MaxAReq
MovieIDs == 1..MaxMovieID

(***************************************************************************)
(* Movie rows and the movie model                                          *)
(***************************************************************************)
\* the zero value of data.Movie
NoMovie == [id |-> 0, created_at |-> 0, title |-> "", year |-> 0,
            runtime |-> 0, genres |-> <<>>, version |-> 0]

\* validator.Unique: no value occurs twice
Unique(s) == \A i, j \in 1..Len(s) : s[i] = s[j] => i = j

\* a title of 500 bytes and names of 500 and of 501 bytes
LongTitle == "a title of 500 bytes"
FullName == "a name of 500 bytes"
LongName == "a name of 501 bytes"

\* len(s) of Go, the number of bytes, for the titles and the names of the
\* requests
ByteLen(s) ==
    CASE s = "" -> 0
      [] s = "A" -> 1
      [] s = "B" -> 1
      [] s = LongTitle -> 500
      [] s = FullName -> 500
      [] s = LongName -> 501

\* data.ValidateMovie: the keys of the validator's error map
ValidateMovie(movie) ==
    (IF movie.title # "" /\ ByteLen(movie.title) < 500 THEN {} ELSE {"title"})
    \cup (IF movie.year # 0 /\ movie.year >= 1888 /\ movie.year <= NowYear
          THEN {} ELSE {"year"})
    \cup (IF movie.runtime # 0 /\ movie.runtime > 0 THEN {} ELSE {"runtime"})
    \cup (IF Len(movie.genres) >= 1 /\ Len(movie.genres) <= 5 /\ Unique(movie.genres)
          THEN {} ELSE {"genres"})

\* MovieModel.Insert: the store assigns id, created_at and version 1
MovieModelInsert(db, serial, movie, createdAt, fault) ==
    IF fault
    THEN [err |-> "ErrStore", movie |-> movie, db |-> db, serial |-> serial]
    ELSE LET row == [movie EXCEPT !.id = serial + 1, !.created_at = createdAt, !.version = 1]
         IN  [err |-> "nil", movie |-> row,
              db |-> [i \in DOMAIN db \cup {row.id} |-> IF i = row.id THEN row ELSE db[i]],
              serial |-> serial + 1]

\* MovieModel.Get
MovieModelGet(db, id, fault) ==
    IF id < 1 THEN [err |-> "ErrRecordNotFound", movie |-> NoMovie]
    ELSE IF fault THEN [err |-> "ErrStore", movie |-> NoMovie]
    ELSE IF id \notin DOMAIN db THEN [err |-> "ErrRecordNotFound", movie |-> NoMovie]
    ELSE [err |-> "nil", movie |-> db[id]]

\* the WHERE clause of MovieModel.Update: a mutant that matches on the id alone
UpdateMatchesIdOnly(db, movie) == movie.id \in DOMAIN db

\* the WHERE clause of MovieModel.Update: id = $5 AND version = $6
UpdateMatches(db, movie) ==
    movie.id \in DOMAIN db /\ db[movie.id].version = movie.version

\* MovieModel.Update, mutant: the SET clause forgets version = version + 1
MovieModelUpdateKeepsVersion(db, movie, fault) ==
    IF fault THEN [err |-> "ErrStore", movie |-> movie, db |-> db]
    ELSE IF UpdateMatches(db, movie)
    THEN LET row == [db[movie.id] EXCEPT !.title = movie.title, !.year = movie.year,
                                         !.runtime = movie.runtime, !.genres = movie.genres]
         IN  [err |-> "nil", movie |-> movie, db |-> [db EXCEPT ![movie.id] = row]]
    ELSE [err |-> "ErrEditConflict", movie |-> movie, db |-> db]

\* MovieModel.Update: UPDATE ... SET ..., version = version + 1 WHERE ... RETURNING version
MovieModelUpdate(db, movie, fault) ==
    IF fault THEN [err |-> "ErrStore", movie |-> movie, db |-> db]
    ELSE IF UpdateMatches(db, movie)
    THEN LET row == [db[movie.id] EXCEPT !.title = movie.title, !.year = movie.year,
                                         !.runtime = movie.runtime, !.genres = movie.genres,
                                         !.version = @ + 1]
         IN  [err |-> "nil", movie |-> [movie EXCEPT !.version = row.version],
              db |-> [db EXCEPT ![movie.id] = row]]
    ELSE [err |-> "ErrEditConflict", movie |-> movie, db |-> db]

\* MovieModel.Delete
MovieModelDelete(db, id, fault) ==
    IF id < 1 THEN [err |-> "ErrRecordNotFound", db |-> db]
    ELSE IF fault THEN [err |-> "ErrStore", db |-> db]
    ELSE IF id \notin DOMAIN db THEN [err |-> "ErrRecordNotFound", db |-> db]
    ELSE [err |-> "nil", db |-> [i \in DOMAIN db \ {id} |-> db[i]]]

(***************************************************************************)
(* Request bodies                                                          *)
(***************************************************************************)
\* a pointer field of the PATCH input: <<>> is nil, <<v>> is a provided value
PatchTitles == {<<>>, <<"">>, <<"B">>, <<LongTitle>>}
PatchYears == {<<>>, <<1887>>, <<2000>>}
PatchRuntimes == {<<>>, <<0>>}
PatchGenres == {<<>>, << <<"drama", "comedy">> >>}

\* bodies of PATCH /v1/movies/:id as readJSON delivers them; bad = readJSON fails
PatchInputs ==
    [bad : {FALSE}, title : PatchTitles, year : PatchYears,
     runtime : PatchRuntimes, genres : PatchGenres]
    \cup {[bad |-> TRUE, title |-> <<>>, year |-> <<>>, runtime |-> <<>>, genres |-> <<>>]}

\* created_at values the store's clock assigns
CreatedAts == {1}

\* bodies of POST /v1/movies
CreateInputs ==
    [bad : BOOLEAN, title : {"", "A", LongTitle}, year : {1999}, runtime : {90},
     genres : {<<"drama">>, <<"drama", "drama">>}]

\* the rows an already populated store holds when the server starts
SeedMovie == [id |-> 1, created_at |-> 1, title |-> "A", year |-> 1999,
              runtime |-> 90, genres |-> <<"drama">>, version |-> 1]

\* the fields of the PATCH input that are not nil
Present(input) ==
    {f \in {"title", "year", "runtime", "genres"} : Len(input[f]) # 0}

\* the partial update of updateMovieHandler, mutant: the handler counts the
\* version up itself before it calls Update
ApplyPatchBumpsVersion(movie, input) ==
    [movie EXCEPT
        !.title = IF Len(input.title) # 0 THEN input.title[1] ELSE @,
        !.year = IF Len(input.year) # 0 THEN input.year[1] ELSE @,
        !.runtime = IF Len(input.runtime) # 0 THEN input.runtime[1] ELSE @,
        !.genres = IF Len(input.genres) # 0 THEN input.genres[1] ELSE @,
        !.version = @ + 1]

\* the partial update of updateMovieHandler, mutant: a body without a year
\* sets the year to the current one
ApplyPatchDefaultsYear(movie, input) ==
    [movie EXCEPT
        !.title = IF Len(input.title) # 0 THEN input.title[1] ELSE @,
        !.year = IF Len(input.year) # 0 THEN input.year[1] ELSE NowYear,
        !.runtime = IF Len(input.runtime) # 0 THEN input.runtime[1] ELSE @,
        !.genres = IF Len(input.genres) # 0 THEN input.genres[1] ELSE @]

\* the partial update of updateMovieHandler: a nil field keeps the fetched value
ApplyPatch(movie, input) ==
    [movie EXCEPT
        !.title = IF Len(input.title) # 0 THEN input.title[1] ELSE @,
        !.year = IF Len(input.year) # 0 THEN input.year[1] ELSE @,
        !.runtime = IF Len(input.runtime) # 0 THEN input.runtime[1] ELSE @,
        !.genres = IF Len(input.genres) # 0 THEN input.genres[1] ELSE @]

(***************************************************************************)
(* Movie requests                                                          *)
(***************************************************************************)
\* a request that has not arrived yet
\*   movie   the handler's in-memory copy, after the response the body's movie
\*   err     what the handler's last model call returned ("none": no call made)
\* and, as history of the run:
\*   held    the version the handler's Get read
\*   called  the handler reached Movies.Update and the store answered the query
\*   peers   the PATCH requests on the same id that were between their Get and
\*           their Update when this request made its Update call
\*   hGet, hUpd  the length of writers[id] at the Get and after the Update
\*   body    the fields the body of a PATCH that was written to the store held
NewReq == [kind |-> "none", pc |-> "new", id |-> 0, movie |-> NoMovie,
           held |-> 0, resp |-> 0, err |-> "none", called |-> FALSE,
           peers |-> {}, hGet |-> 0, hUpd |-> 0, body |-> {}]

\* requests are numbered in their order of arrival
Arrives(r) == req[r].pc = "new" /\ (IF r = 1 THEN TRUE ELSE req[r - 1].pc # "new")

Finish(r, status) == [req[r] EXCEPT !.pc = "done", !.resp = status]

\* createMovieHandler
createMovieHandler(r) ==
    /\ Arrives(r)
    /\ \E input \in CreateInputs, createdAt \in CreatedAts, fault \in BOOLEAN :
        LET movie == [NoMovie EXCEPT !.title = input.title, !.runtime = input.runtime,
                                     !.genres = input.genres, !.year = input.year]
            res == MovieModelInsert(movies, lastID, movie, createdAt, fault)
            me == [req[r] EXCEPT !.kind = "create", !.pc = "done"]
        IN  IF input.bad
            THEN /\ req' = [req EXCEPT ![r] = [me EXCEPT !.resp = 400]]
                 /\ UNCHANGED <<movies, lastID, writers>>
            ELSE IF ValidateMovie(movie) # {}
            THEN /\ req' = [req EXCEPT ![r] = [me EXCEPT !.resp = 422]]
                 /\ UNCHANGED <<movies, lastID, writers>>
            ELSE /\ lastID < MaxMovieID
                 /\ movies' = res.db
                 /\ lastID' = res.serial
                 /\ req' = [req EXCEPT ![r] =
                        [me EXCEPT !.err = res.err, !.id = res.movie.id,
                                   !.movie = IF res.err = "nil" THEN res.movie ELSE NoMovie,
                                   !.resp = IF res.err = "nil" THEN 201 ELSE 500]]
                 /\ UNCHANGED writers

\* updateMovieHandler up to and including app.models.Movies.Get(id)
updateMovieHandlerGet(r) ==
    /\ Arrives(r)
    /\ \E id \in 0..MaxMovieID, fault \in BOOLEAN :
        LET res == MovieModelGet(movies, id, fault)
            me == [req[r] EXCEPT !.kind = "patch", !.id = id]
        IN  /\ req' = [req EXCEPT ![r] =
                    IF id < 1 THEN [me EXCEPT !.pc = "done", !.resp = 404]
                    ELSE IF res.err = "ErrRecordNotFound"
                    THEN [me EXCEPT !.pc = "done", !.resp = 404]
                    ELSE IF res.err # "nil" THEN [me EXCEPT !.pc = "done", !.resp = 500]
                    ELSE [me EXCEPT !.pc = "update", !.movie = res.movie,
                                    !.held = res.movie.version,
                                    !.hGet = Len(writers[id])]]
            /\ UNCHANGED <<movies, lastID, writers>>

\* updateMovieHandler's switch, mutant: the ErrEditConflict case is missing
updateMovieStatusNoConflictCase(err) ==
    IF err = "nil" THEN 200 ELSE 500

\* the switch on the error of Movies.Update in updateMovieHandler
updateMovieStatus(err) ==
    IF err = "nil" THEN 200
    ELSE IF err = "ErrEditConflict" THEN 409
    ELSE 500

\* updateMovieHandler from readJSON to the response
updateMovieHandlerUpdate(r) ==
    /\ req[r].pc = "update"
    /\ \E input \in PatchInputs, fault \in BOOLEAN :
        LET movie == ApplyPatch(req[r].movie, input)
            res == MovieModelUpdate(movies, movie, fault)
            id == req[r].id
        IN  IF input.bad
            THEN /\ req' = [req EXCEPT ![r] = [Finish(r, 400) EXCEPT !.movie = NoMovie]]
                 /\ UNCHANGED <<movies, lastID, writers>>
            ELSE IF ValidateMovie(movie) # {}
            THEN /\ req' = [req EXCEPT ![r] = [Finish(r, 422) EXCEPT !.movie = NoMovie]]
                 /\ UNCHANGED <<movies, lastID, writers>>
            ELSE /\ movies' = res.db
                 /\ writers' = IF res.err = "nil"
                               THEN [writers EXCEPT ![id] = Append(@, r)] ELSE writers
                 /\ req' = [req EXCEPT ![r] =
                        [req[r] EXCEPT
                            !.pc = "done", !.err = res.err,
                            !.movie = IF res.err = "nil" THEN res.movie ELSE NoMovie,
                            !.called = ~fault,
                            !.peers = {q \in Reqs \ {r} :
                                          req[q].pc = "update" /\ req[q].id = id},
                            !.hUpd = Len(writers'[id]),
                            !.body = IF res.err = "nil" THEN Present(input) ELSE {},
                            !.resp = updateMovieStatus(res.err)]]
                 /\ UNCHANGED lastID

\* deleteMovieHandler
deleteMovieHandler(r) ==
    /\ Arrives(r)
    /\ \E id \in 0..MaxMovieID, fault \in BOOLEAN :
        LET res == MovieModelDelete(movies, id, fault)
        IN  /\ movies' = res.db
            /\ writers' = IF res.err = "nil"
                          THEN [writers EXCEPT ![id] = Append(@, r)] ELSE writers
            /\ req' = [req EXCEPT ![r] =
                    [req[r] EXCEPT
                        !.kind = "delete", !.pc = "done", !.id = id, !.err = res.err,
                        !.resp = IF res.err = "nil" THEN 200
                                 ELSE IF res.err = "ErrRecordNotFound" THEN 404
                                 ELSE 500]]
            /\ UNCHANGED lastID

(***************************************************************************)
(* Users, tokens and permissions                                           *)
(***************************************************************************)
\* data.ScopeActivation, data.ScopeAuthentication
ScopeActivation == "activation"
ScopeAuthentication == "authentication"

\* the ttl of an authentication token, 24*time.Hour, and of an activation
\* token, 3*24*time.Hour; the clock `now` counts days
AuthenticationTTL == 1
ActivationTTL == 3

\* the zero value of data.User
NoUser == [id |-> 0, email |-> "", password_hash |-> <<>>, activated |-> FALSE,
           version |-> 0]

\* data.AnonymousUser
AnonymousUser == NoUser

\* User.IsAnonymous
IsAnonymous(user) == user = AnonymousUser

\* a string as a token plaintext: its length in bytes and, for 26 bytes, which
\* of the possible random values it encodes (0: a value generateToken never drew)
Plaintext(len, rnd) == [len |-> len, rnd |-> rnd]

\* sha256.Sum256 of a plaintext
Sum256(plaintext) == <<"sha256", plaintext.len, plaintext.rnd>>

\* bcrypt.GenerateFromPassword / CompareHashAndPassword on a password text
Bcrypt(text) == <<"bcrypt", text>>

\* generateToken, mutant: the base-32 text keeps its padding (32 characters)
generateTokenPadded(userID, ttl, scope, rnd, t) ==
    [plaintext |-> Plaintext(32, rnd), hash |-> Sum256(Plaintext(32, rnd)),
     user_id |-> userID, expiry |-> t + ttl, scope |-> scope]

\* generateToken, mutant: the digest is taken of the padded text, the
\* plaintext handed out is the unpadded one
generateTokenHashesPadded(userID, ttl, scope, rnd, t) ==
    [plaintext |-> Plaintext(26, rnd), hash |-> Sum256(Plaintext(32, rnd)),
     user_id |-> userID, expiry |-> t + ttl, scope |-> scope]

\* generateToken: 16 random bytes in unpadded base-32 (26 characters), the
\* SHA-256 of that text, expiry = time.Now().Add(ttl)
generateToken(userID, ttl, scope, rnd, t) ==
    [plaintext |-> Plaintext(26, rnd), hash |-> Sum256(Plaintext(26, rnd)),
     user_id |-> userID, expiry |-> t + ttl, scope |-> scope]

\* TokenModel.Insert, mutant: the plaintext is stored next to the hash
TokenRowKeepsPlaintext(token) ==
    [hash |-> token.hash, user_id |-> token.user_id, expiry |-> token.expiry,
     scope |-> token.scope, plaintext |-> token.plaintext]

\* the row TokenModel.Insert stores for a token
TokenRow(token) ==
    [hash |-> token.hash, user_id |-> token.user_id, expiry |-> token.expiry,
     scope |-> token.scope]

\* TokenModel.New: generateToken, then Insert; the token is returned with the error
TokenModelNew(tk, userID, ttl, scope, rnd, t, fault) ==
    LET token == generateToken(userID, ttl, scope, rnd, t)
    IN  IF fault THEN [err |-> "ErrStore", token |-> token, tokens |-> tk]
        ELSE [err |-> "nil", token |-> token, tokens |-> tk \cup {TokenRow(token)}]

\* data.ValidateTokenPlaintext: the keys of the validator's error map
ValidateTokenPlaintext(plaintext) ==
    IF plaintext.len = 0 THEN {<<"token", "must be provided">>}
    ELSE IF plaintext.len # 26 THEN {<<"token", "must be 26 bytes long">>}
    ELSE {}

\* TokenModel.DeleteAllForUser, mutant: deletes the tokens of the other scopes
DeleteAllForUserWrongScope(tk, scope, userID, fault) ==
    IF fault THEN [err |-> "ErrStore", tokens |-> tk]
    ELSE [err |-> "nil",
          tokens |-> {t \in tk : ~(t.scope # scope /\ t.user_id = userID)}]

\* TokenModel.DeleteAllForUser: DELETE FROM tokens WHERE scope = $1 AND user_id = $2
DeleteAllForUser(tk, scope, userID, fault) ==
    IF fault THEN [err |-> "ErrStore", tokens |-> tk]
    ELSE [err |-> "nil",
          tokens |-> {t \in tk : ~(t.scope = scope /\ t.user_id = userID)}]

\* the WHERE clause of GetTokenUser, mutant: a token is still good at its expiry
TokenMatchesAtExpiry(t, tokenScope, tokenPlaintext, t0) ==
    /\ t.hash = Sum256(tokenPlaintext)
    /\ t.scope = tokenScope
    /\ t.expiry >= t0

\* the WHERE clause of UserModel.GetTokenUser:
\* tokens.hash = $1 AND tokens.scope = $2 AND tokens.expiry > $3
TokenMatches(t, tokenScope, tokenPlaintext, t0) ==
    /\ t.hash = Sum256(tokenPlaintext)
    /\ t.scope = tokenScope
    /\ t.expiry > t0

\* UserModel.GetTokenUser, mutant: the scope of the token is not compared
GetTokenUserAnyScope(us, tk, tokenScope, tokenPlaintext, t0, fault) ==
    LET rows == {t \in tk : /\ t.user_id \in DOMAIN us
                            /\ t.hash = Sum256(tokenPlaintext)
                            /\ t.expiry > t0}
    IN  IF fault THEN [err |-> "ErrStore", user |-> NoUser]
        ELSE IF rows = {} THEN [err |-> "ErrRecordNotFound", user |-> NoUser]
        ELSE [err |-> "nil", user |-> us[(CHOOSE t \in rows : TRUE).user_id]]

\* UserModel.GetTokenUser: users INNER JOIN tokens, first row or ErrRecordNotFound
GetTokenUser(us, tk, tokenScope, tokenPlaintext, t0, fault) ==
    LET rows == {t \in tk : /\ t.user_id \in DOMAIN us
                            /\ TokenMatches(t, tokenScope, tokenPlaintext, t0)}
    IN  IF fault THEN [err |-> "ErrStore", user |-> NoUser]
        ELSE IF rows = {} THEN [err |-> "ErrRecordNotFound", user |-> NoUser]
        ELSE [err |-> "nil", user |-> us[(CHOOSE t \in rows : TRUE).user_id]]

\* UserModel.GetByEmail
GetByEmail(us, email, fault) ==
    IF fault THEN [err |-> "ErrStore", user |-> NoUser]
    ELSE IF \E i \in DOMAIN us : us[i].email = email
    THEN [err |-> "nil", user |-> us[CHOOSE i \in DOMAIN us : us[i].email = email]]
    ELSE [err |-> "ErrRecordNotFound", user |-> NoUser]

\* UserModel.Update: ... version = version + 1 WHERE id = $5 AND version = $6
UserModelUpdate(us, user, fault) ==
    IF fault THEN [err |-> "ErrStore", user |-> user, users |-> us]
    ELSE IF ~(user.id \in DOMAIN us /\ us[user.id].version = user.version)
    THEN [err |-> "ErrEditConflict", user |-> user, users |-> us]
    ELSE IF \E i \in DOMAIN us \ {user.id} : us[i].email = user.email
    THEN [err |-> "ErrDuplicateEmail", user |-> user, users |-> us]
    ELSE LET row == [user EXCEPT !.version = @ + 1]
         IN  [err |-> "nil", user |-> row, users |-> [us EXCEPT ![user.id] = row]]

\* the zero value of the input struct of createAuthenticationTokenHandler
NoInput == [email |-> "", password |-> [text |-> "", len |-> 0]]

\* password.Matches, mutant: every password matches
MatchesAnything(hash, plaintextPassword) == [match |-> TRUE, err |-> "nil"]

\* password.Matches: bcrypt.CompareHashAndPassword; a password that is not
\* the hashed one is no error, a value that is no bcrypt hash is one
Matches(hash, plaintextPassword) ==
    IF Len(hash) # 2
    THEN [match |-> FALSE, err |-> "ErrHashTooShort"]
    ELSE [match |-> hash = Bcrypt(plaintextPassword), err |-> "nil"]

\* Permissions.Include
Include(p, code) == \E i \in 1..Len(p) : p[i] = code

\* PermissionModel.GetAllForUser: the codes joined to the user, in table order
GetAllForUser(perm, userID, fault) ==
    IF fault THEN [err |-> "ErrStore", permissions |-> <<>>]
    ELSE IF userID \in DOMAIN perm THEN [err |-> "nil", permissions |-> perm[userID]]
    ELSE [err |-> "nil", permissions |-> <<>>]

(***************************************************************************)
(* Responses                                                               *)
(***************************************************************************)
\* a response: the status and the value under "error" in the envelope, which
\* is a message or the validator's error map, here a set of <<key, message>>
Response(status, msg, errors) == [status |-> status, msg |-> msg, errors |-> errors]

\* nothing written yet
NoResponse == Response(0, "", {})

\* writeJSON with a success status
OkResponse(status) == Response(status, "", {})

serverErrorResponse ==
    Response(500, "the server encountered a problem and could not process your request", {})

\* what json.Decoder.Decode makes of a request body: its error, the field or
\* key the error names, and whether a second JSON value follows the first
Decoded(err, field, more) == [err |-> err, field |-> field, more |-> more]

\* a body that holds one well-formed JSON value of the expected keys and types
GoodBody == Decoded("nil", "", FALSE)

\* the bodies a client may send to a handler whose input struct has the key
\* `field`: the good one, `{}{}`, `<`, `{`, a number under `field`, `[]`,
\* nothing, the key "nam", more than 1_048_576 bytes, and a body whose
\* reading fails
Bodies(field) ==
    {GoodBody, Decoded("nil", "", TRUE), Decoded("SyntaxError", "", FALSE),
     Decoded("ErrUnexpectedEOF", "", FALSE), Decoded("UnmarshalTypeError", field, FALSE),
     Decoded("UnmarshalTypeError", "", FALSE), Decoded("EOF", "", FALSE),
     Decoded("unknown field", "nam", FALSE), Decoded("too large", "", FALSE),
     Decoded("read error", "", FALSE)}

\* readJSON: the error it returns for what Decode made of the body, "nil" for
\* none. The offsets are those of the bodies above. Decode gives no
\* InvalidUnmarshalError, on which readJSON panics, as every handler passes
\* the address of its input struct
readJSON(body) ==
    CASE body.err = "SyntaxError" -> "body contains badly-formed JSON (at character 1)"
      [] body.err = "ErrUnexpectedEOF" -> "body contains badly-formed JSON"
      [] body.err = "UnmarshalTypeError" ->
            IF body.field = "email"
            THEN "body contains incorrect JSON type for field \"email\""
            ELSE IF body.field = "token"
            THEN "body contains incorrect JSON type for field \"token\""
            ELSE "body contains incorrect JSON type (at character 1)"
      [] body.err = "EOF" -> "body must not be empty"
      [] body.err = "unknown field" -> "body contains unknown key \"nam\""
      [] body.err = "too large" -> "body must not be larger than 1048576 bytes"
      [] body.err = "read error" -> "read tcp: i/o timeout"
      [] OTHER -> IF body.more THEN "body must only contain a single JSON value"
                  ELSE "nil"

\* badRequestResponse: status 400 with the text of the error
badRequestResponse(err) == Response(400, err, {})

failedValidationResponse(errors) == Response(422, "", errors)

invalidCredentialsResponse == Response(401, "invalid authentication credentials", {})

editConflictResponse ==
    Response(409, "unable to update the record due to an edit conflict, please try again", {})

rateLimitExceededResponse == Response(429, "rate limit exceeded", {})

invalidAuthenticationTokenResponse ==
    Response(401, "invalid or missing authentication token", {})

authenticationRequiredResponse ==
    Response(401, "you must be authenticated to access this resource", {})

inactivateAccountResponse ==
    Response(403, "your account must be activated to access this resource", {})

notPermittedResponse ==
    Response(403, "your use account does not the necessary permissions to access this resource", {})

(***************************************************************************)
(* Authentication and authorization middleware                             *)
(***************************************************************************)
\* an Authorization header after strings.Split(header, " "): the number of
\* parts (0: the header is absent or empty), part 0 and part 1
Header(n, scheme, token) == [n |-> n, scheme |-> scheme, token |-> token]

NoHeader == Header(0, "", Plaintext(0, 0))

\* the strings a client may send where a token plaintext is expected
\* the random values crypto/rand can have handed out: those of the tokens
\* in the store at the start and one for every request
MaxTokens == 4 + MaxAReq

ClientPlaintexts ==
    {Plaintext(26, k) : k \in 0..MaxTokens} \cup {Plaintext(0, 0), Plaintext(25, 0)}

\* the Authorization headers a client may send
Headers ==
    {NoHeader, Header(1, "Bearer", Plaintext(0, 0)), Header(3, "Bearer", Plaintext(26, 1)),
     Header(2, "Basic", Plaintext(26, 2))}
    \cup {Header(2, "Bearer", p) : p \in ClientPlaintexts}

\* what a middleware stage hands back: the response it wrote, whether it called
\* next, and the identities it put into the request context
Stage(resp, next, ctx, err) == [resp |-> resp, next |-> next, ctx |-> ctx, err |-> err]

\* authenticate, mutant: a malformed header is treated like a missing one
authenticateLenient(us, tk, hdr, t0, fault) ==
    LET res == GetTokenUser(us, tk, ScopeAuthentication, hdr.token, t0, fault)
    IN  IF hdr.n = 0 \/ hdr.n # 2 \/ hdr.scheme # "Bearer"
        THEN Stage(NoResponse, TRUE, <<AnonymousUser>>, "none")
        ELSE IF ValidateTokenPlaintext(hdr.token) # {}
        THEN Stage(invalidAuthenticationTokenResponse, FALSE, <<>>, "none")
        ELSE IF res.err = "ErrRecordNotFound"
        THEN Stage(invalidAuthenticationTokenResponse, FALSE, <<>>, res.err)
        ELSE IF res.err # "nil"
        THEN Stage(serverErrorResponse, FALSE, <<>>, res.err)
        ELSE Stage(NoResponse, TRUE, <<res.user>>, res.err)

\* authenticate: the middleware up to its call of next
authenticate(us, tk, hdr, t0, fault) ==
    LET res == GetTokenUser(us, tk, ScopeAuthentication, hdr.token, t0, fault)
    IN  IF hdr.n = 0
        THEN Stage(NoResponse, TRUE, <<AnonymousUser>>, "none")
        ELSE IF hdr.n # 2 \/ hdr.scheme # "Bearer"
        THEN Stage(invalidAuthenticationTokenResponse, FALSE, <<>>, "none")
        ELSE IF ValidateTokenPlaintext(hdr.token) # {}
        THEN Stage(invalidAuthenticationTokenResponse, FALSE, <<>>, "none")
        ELSE IF res.err = "ErrRecordNotFound"
        THEN Stage(invalidAuthenticationTokenResponse, FALSE, <<>>, res.err)
        ELSE IF res.err # "nil"
        THEN Stage(serverErrorResponse, FALSE, <<>>, res.err)
        ELSE Stage(NoResponse, TRUE, <<res.user>>, res.err)

\* contextGetUser: the innermost value stored under userContextKey
contextGetUser(ctx) == ctx[Len(ctx)]

\* what a gate hands back: the response, whether the handler body ran and
\* whether the permission store was queried
Gate(resp, ran, queried) == [resp |-> resp, ran |-> ran, queried |-> queried]

\* requireAuthenticatedUser around a next that would hand back `next`
requireAuthenticatedUser(user, next) ==
    IF IsAnonymous(user) THEN Gate(authenticationRequiredResponse, FALSE, FALSE)
    ELSE next

\* requireActivatedUser, mutant: the check of user.Activated is missing
requireActivatedUserAnyone(user, next) ==
    requireAuthenticatedUser(user, next)

\* requireActivatedUser, mutant: fn is returned without the
\* requireAuthenticatedUser wrapper
requireActivatedUserUnwrapped(user, next) ==
    IF ~user.activated THEN Gate(inactivateAccountResponse, FALSE, FALSE)
    ELSE next

\* requireActivatedUser: fn wrapped in requireAuthenticatedUser
requireActivatedUser(user, next) ==
    requireAuthenticatedUser(user,
        IF ~user.activated THEN Gate(inactivateAccountResponse, FALSE, FALSE)
        ELSE next)

\* requirePermission: fn wrapped in requireActivatedUser
requirePermission(code, user, perm, fault, next) ==
    requireActivatedUser(user,
        LET res == GetAllForUser(perm, user.id, fault)
        IN  IF res.err # "nil" THEN Gate(serverErrorResponse, FALSE, TRUE)
            ELSE IF ~Include(res.permissions, code)
            THEN Gate(notPermittedResponse, FALSE, TRUE)
            ELSE [next EXCEPT !.queried = TRUE])

\* the permission codes the routes ask for
Codes == {"movies:read", "movies:write"}

(***************************************************************************)
(* Requests to the user and token endpoints and to the guarded routes      *)
(***************************************************************************)
\*   hdr, code   the Authorization header and the permission the route requires
\*   tok         the token plaintext in the body of an activation request, or
\*               the plaintext a token endpoint answers with
\*   user        the handler's user value
\*   ctx         the identities in the request context
\*   next        authenticate called the next handler
\*   ran         the body of the guarded handler ran
\*   queried     requirePermission queried the permission store
\*   err         what the last call of the user or token model returned
\*               ("none": no call made)
\*   perr        what Permissions.GetAllForUser returned
\*   seen        history: the activation tokens stored for the user at the
\*               store calls of the activation handler
\*   input       the email and password createAuthenticationTokenHandler read
\*   mail        the background task of the mail of createActivationTokenHandler:
\*               "none", "running", "ended"
NewAReq == [kind |-> "none", pc |-> "new", hdr |-> NoHeader, code |-> "",
            tok |-> Plaintext(0, 0), user |-> NoUser, ctx |-> <<>>,
            resp |-> NoResponse, next |-> FALSE, ran |-> FALSE, queried |-> FALSE,
            err |-> "none", perr |-> "none", seen |-> {}, input |-> NoInput,
            mail |-> "none"]

\* a request that has been answered
DoneAReq == [NewAReq EXCEPT !.pc = "done"]

\* no answered request is waiting to be taken off out
Quiet == out = NewAReq

\* requests are numbered as they arrive
AArrives(r) == Quiet /\ areq[r].pc = "new" /\ \A q \in 1..(r - 1) : areq[q].pc # "new"

\* request r goes on from a store call
AResumes(r, kind, pc) == Quiet /\ areq[r].kind = kind /\ areq[r].pc = pc

\* the step of request r leaves it as rec: a request that has been answered
\* goes to out and its locals are gone
Step(r, rec) ==
    /\ out' = IF rec.pc = "done" THEN rec ELSE out
    /\ areq' = [areq EXCEPT ![r] = IF rec.pc = "done" THEN DoneAReq ELSE rec]

\* what a gate hands on while no gate has answered the request
Passing == Gate(NoResponse, FALSE, FALSE)

\* a request to a route wrapped in requirePermission(code): authenticate with
\* its call of Users.GetTokenUser, and behind it requireAuthenticatedUser and
\* requireActivatedUser, which answer the request or let it go on to the
\* query of requirePermission
routeAuthenticate(r) ==
    /\ AArrives(r)
    /\ \E hdr \in Headers, code \in Codes, fault \in BOOLEAN :
        LET st == authenticate(users, tokens, hdr, now, fault)
            me == [areq[r] EXCEPT !.kind = "route", !.pc = "done", !.hdr = hdr,
                                  !.code = code, !.resp = st.resp, !.next = st.next,
                                  !.ctx = st.ctx, !.err = st.err]
            user == contextGetUser(st.ctx)
            g == requireActivatedUser(user, Passing)
        IN  Step(r, IF ~st.next THEN me
                    ELSE IF g # Passing THEN [me EXCEPT !.user = user, !.resp = g.resp]
                    ELSE [me EXCEPT !.pc = "permission", !.user = user])
    /\ UNCHANGED <<users, tokens, permissions, now, lastRand, issued, burned>>

\* the request goes on in requirePermission(code, handler): the query
\* Permissions.GetAllForUser on the tables as they are now, and the handler
\* behind it
routeRequirePermission(r) ==
    /\ AResumes(r, "route", "permission")
    /\ \E permFault \in BOOLEAN :
        LET g == requirePermission(areq[r].code, areq[r].user, permissions, permFault,
                                   Gate(OkResponse(200), TRUE, FALSE))
        IN  Step(r, [areq[r] EXCEPT !.pc = "done", !.resp = g.resp, !.ran = g.ran,
                                    !.queried = g.queried,
                                    !.perr = IF ~g.queried THEN "none"
                                             ELSE IF permFault THEN "ErrStore" ELSE "nil"])
    /\ UNCHANGED <<users, tokens, permissions, now, lastRand, issued, burned>>

\* history: a token New handed out at time t0 with time to live ttl
Issue(token, t0, ttl) ==
    [plaintext |-> token.plaintext, user_id |-> token.user_id, scope |-> token.scope,
     t0 |-> t0, ttl |-> ttl]

\* the hashes of the activation tokens stored for a user
ActivationHashes(tk, userID) ==
    {t.hash : t \in {x \in tk : x.scope = ScopeActivation /\ x.user_id = userID}}

\* activateUserHandler up to and including Users.GetTokenUser
activateUserHandlerGet(r) ==
    /\ AArrives(r)
    /\ \E body \in Bodies("token"), tok \in ClientPlaintexts, fault \in BOOLEAN :
        LET res == GetTokenUser(users, tokens, ScopeActivation, tok, now, fault)
            me == [areq[r] EXCEPT !.kind = "activate", !.pc = "done", !.tok = tok]
        IN  Step(r,
                IF readJSON(body) # "nil"
                THEN [me EXCEPT !.tok = Plaintext(0, 0),
                                !.resp = badRequestResponse(readJSON(body))]
                ELSE IF ValidateTokenPlaintext(tok) # {}
                THEN [me EXCEPT !.resp = failedValidationResponse(ValidateTokenPlaintext(tok))]
                ELSE IF res.err = "ErrRecordNotFound"
                THEN [me EXCEPT !.err = res.err,
                                !.resp = failedValidationResponse(
                                    {<<"token", "invalid or expired activation token">>})]
                ELSE IF res.err # "nil"
                THEN [me EXCEPT !.err = res.err, !.resp = serverErrorResponse]
                ELSE [me EXCEPT !.pc = "update", !.err = res.err,
                                !.user = [res.user EXCEPT !.activated = TRUE],
                                !.seen = ActivationHashes(tokens, res.user.id)])
    /\ UNCHANGED <<users, tokens, permissions, now, lastRand, issued, burned>>

\* activateUserHandler: Users.Update
activateUserHandlerUpdate(r) ==
    /\ AResumes(r, "activate", "update")
    /\ \E fault \in BOOLEAN :
        LET res == UserModelUpdate(users, areq[r].user, fault)
            me == [areq[r] EXCEPT !.err = res.err,
                        !.seen = @ \cup ActivationHashes(tokens, areq[r].user.id)]
        IN  /\ users' = res.users
            /\ Step(r,
                    IF res.err = "ErrEditConflict"
                    THEN [me EXCEPT !.pc = "done", !.resp = editConflictResponse]
                    ELSE IF res.err # "nil"
                    THEN [me EXCEPT !.pc = "done", !.resp = serverErrorResponse]
                    ELSE [me EXCEPT !.pc = "delete", !.user = res.user])
    /\ UNCHANGED <<tokens, permissions, now, lastRand, issued, burned>>

\* activateUserHandler: Tokens.DeleteAllForUser and the response
activateUserHandlerDelete(r) ==
    /\ AResumes(r, "activate", "delete")
    /\ \E fault \in BOOLEAN :
        LET res == DeleteAllForUser(tokens, ScopeActivation, areq[r].user.id, fault)
            me == [areq[r] EXCEPT !.pc = "done", !.err = res.err,
                        !.seen = @ \cup ActivationHashes(tokens, areq[r].user.id)]
        IN  /\ tokens' = res.tokens
            /\ burned' = IF res.err = "nil" THEN burned \cup me.seen ELSE burned
            /\ Step(r, [me EXCEPT !.resp = IF res.err # "nil" THEN serverErrorResponse
                                           ELSE OkResponse(200)])
    /\ UNCHANGED <<users, permissions, now, lastRand, issued>>

\* the email addresses and passwords a client may send; a password is its
\* text and its length in bytes
Emails == {"", "a.example.com", "a@example.com", "b@example.com", "c@example.com"}
Passwords == {[text |-> "pa55word", len |-> 8], [text |-> "wrong pw", len |-> 8],
              [text |-> "short", len |-> 5]}

\* validator.Matches(email, validator.EmailRX) on the addresses of Emails
MatchesEmailRX(email) == email \notin {"", "a.example.com"}

\* data.ValidateEmail
ValidateEmail(email) ==
    IF email = "" THEN {<<"email", "must be provided">>}
    ELSE IF ~MatchesEmailRX(email) THEN {<<"email", "must be a valid email address">>}
    ELSE {}

\* data.ValidatePasswordPlaintext
ValidatePasswordPlaintext(password) ==
    IF password.len = 0 THEN {<<"password", "must be provided">>}
    ELSE IF password.len < 8 THEN {<<"password", "must be at least 8 bytes long">>}
    ELSE IF password.len > 72 THEN {<<"password", "must not be more than 72 bytes long">>}
    ELSE {}

\* createAuthenticationTokenHandler up to Users.GetByEmail and the comparison
\* of the password with the hash of the row
createAuthenticationTokenHandlerGet(r) ==
    /\ AArrives(r)
    /\ \E body \in Bodies("email"), email \in Emails, password \in Passwords,
          fault \in BOOLEAN :
        LET res == GetByEmail(users, email, fault)
            bad == readJSON(body) # "nil"
            me == [areq[r] EXCEPT !.kind = "login", !.pc = "done",
                        !.input = IF bad THEN NoInput
                                  ELSE [email |-> email, password |-> password]]
            errors == ValidateEmail(email) \cup ValidatePasswordPlaintext(password)
            m == Matches(res.user.password_hash, password.text)
        IN  Step(r,
                IF bad THEN [me EXCEPT !.resp = badRequestResponse(readJSON(body))]
                ELSE IF errors # {}
                THEN [me EXCEPT !.resp = failedValidationResponse(errors)]
                ELSE IF res.err = "ErrRecordNotFound"
                THEN [me EXCEPT !.err = res.err, !.resp = invalidCredentialsResponse]
                ELSE IF res.err # "nil"
                THEN [me EXCEPT !.err = res.err, !.resp = serverErrorResponse]
                ELSE IF m.err # "nil"
                THEN [me EXCEPT !.err = m.err, !.user = res.user,
                                !.resp = serverErrorResponse]
                ELSE IF ~m.match
                THEN [me EXCEPT !.err = res.err, !.user = res.user,
                                !.resp = invalidCredentialsResponse]
                ELSE [me EXCEPT !.pc = "token", !.err = res.err, !.user = res.user])
    /\ UNCHANGED <<users, tokens, permissions, now, lastRand, issued, burned>>

\* createAuthenticationTokenHandler: Tokens.New and the response
createAuthenticationTokenHandlerNew(r) ==
    /\ AResumes(r, "login", "token")
    /\ \E fault \in BOOLEAN :
        LET new == TokenModelNew(tokens, areq[r].user.id, AuthenticationTTL,
                                 ScopeAuthentication, lastRand + 1, now, fault)
        IN  /\ tokens' = new.tokens
            /\ issued' = IF new.err = "nil"
                         THEN issued \cup {Issue(new.token, now, AuthenticationTTL)}
                         ELSE issued
            /\ Step(r, [areq[r] EXCEPT !.pc = "done", !.err = new.err,
                              !.tok = IF new.err = "nil" THEN new.token.plaintext ELSE @,
                              !.resp = IF new.err # "nil" THEN serverErrorResponse
                                       ELSE OkResponse(201)])
    /\ lastRand' = lastRand + 1
    /\ UNCHANGED <<users, permissions, now, burned>>

\* how often Send tries to deliver a message
MailTries == 3

\* what the SMTP server does with the tries of one Send: delivered or not
Deliveries == [1..MailTries -> BOOLEAN]

\* Mailer.Send: up to three times DialAndSend, nil after the first that
\* succeeds, the last error after three failures
MailerSend(delivered) ==
    IF \E i \in 1..MailTries : delivered[i] THEN "nil" ELSE "ErrMail"

\* createActivationTokenHandler up to the activation check
createActivationTokenHandlerGet(r) ==
    /\ AArrives(r)
    /\ \E body \in Bodies("email"), email \in Emails, fault \in BOOLEAN :
        LET res == GetByEmail(users, email, fault)
            me == [areq[r] EXCEPT !.kind = "resend", !.pc = "done"]
        IN  Step(r,
                IF readJSON(body) # "nil"
                THEN [me EXCEPT !.resp = badRequestResponse(readJSON(body))]
                ELSE IF ValidateEmail(email) # {}
                THEN [me EXCEPT !.resp = failedValidationResponse(ValidateEmail(email))]
                ELSE IF res.err = "ErrRecordNotFound"
                THEN [me EXCEPT !.err = res.err,
                                !.resp = failedValidationResponse(
                                    {<<"email", "no user found with this email address">>})]
                ELSE IF res.err # "nil"
                THEN [me EXCEPT !.err = res.err, !.resp = serverErrorResponse]
                ELSE IF res.user.activated
                THEN [me EXCEPT !.err = res.err, !.user = res.user,
                                !.resp = failedValidationResponse(
                                    {<<"email", "user account is already activated">>})]
                ELSE [me EXCEPT !.pc = "token", !.err = res.err, !.user = res.user])
    /\ UNCHANGED <<users, tokens, permissions, now, lastRand, issued, burned>>

\* createActivationTokenHandler: Tokens.New and the mail with the token handed
\* to background
createActivationTokenHandlerNew(r) ==
    /\ AResumes(r, "resend", "token")
    /\ \E fault \in BOOLEAN :
        LET res == TokenModelNew(tokens, areq[r].user.id, ActivationTTL,
                                 ScopeActivation, lastRand + 1, now, fault)
        IN  /\ tokens' = res.tokens
            /\ issued' = IF res.err = "nil"
                         THEN issued \cup {Issue(res.token, now, ActivationTTL)}
                         ELSE issued
            /\ Step(r, IF res.err # "nil"
                       THEN [areq[r] EXCEPT !.pc = "done", !.err = res.err,
                                            !.resp = serverErrorResponse]
                       ELSE [areq[r] EXCEPT !.pc = "respond", !.err = res.err,
                                            !.mail = "running"])
    /\ lastRand' = lastRand + 1
    /\ UNCHANGED <<users, permissions, now, burned>>

\* createActivationTokenHandler: writeJSON of the 202 and the test of err
\* behind it. The closure handed to background assigns the same err variable
\* without synchronisation: when Send fails while the handler is between its
\* assignment and its test, the handler may read the error of the mail and
\* call serverErrorResponse on the response whose status 202 is already
\* written. The request is answered; its mail may still be on its way
createActivationTokenHandlerRespond(r) ==
    /\ AResumes(r, "resend", "respond")
    /\ \E raced \in BOOLEAN :
        /\ raced => areq[r].mail = "running"
        /\ out' = [areq[r] EXCEPT !.pc = "done", !.resp = OkResponse(202),
                                  !.err = IF raced THEN "ErrMail" ELSE "nil",
                                  !.mail = IF raced THEN "ended" ELSE @]
        /\ areq' = [areq EXCEPT ![r] =
                IF ~raced /\ areq[r].mail = "running"
                THEN [NewAReq EXCEPT !.kind = "resend", !.pc = "mailing", !.mail = "running"]
                ELSE DoneAReq]
    /\ UNCHANGED <<users, tokens, permissions, now, lastRand, issued, burned>>

\* the goroutine of background for the mail of resend request r ends: Send
\* returned, and its error was assigned to err and logged, or fn panicked,
\* and the panic was recovered and logged
activationMail(r) ==
    /\ Quiet /\ areq[r].kind = "resend" /\ areq[r].mail = "running"
    /\ areq' = [areq EXCEPT ![r] = IF areq[r].pc = "mailing" THEN DoneAReq
                                   ELSE [@ EXCEPT !.mail = "ended"]]
    /\ UNCHANGED <<users, tokens, permissions, now, lastRand, issued, burned, out>>

\* time passes
Tick ==
    /\ Quiet /\ now < MaxTime
    /\ now' = now + 1
    /\ UNCHANGED <<users, tokens, permissions, lastRand, issued, burned, areq, out>>

\* the answered request has been looked at
Served ==
    /\ ~Quiet
    /\ out' = NewAReq
    /\ UNCHANGED <<users, tokens, permissions, now, lastRand, issued, burned, areq>>

(***************************************************************************)
(* The store of a running installation: user 1 registered, asked once more *)
(* for an activation token and logged in; user 2 is activated, may write   *)
(* movies and has logged in                                                *)
(***************************************************************************)
SeedUsers ==
    [i \in {1, 2} |->
        [id |-> i, email |-> IF i = 1 THEN "a@example.com" ELSE "b@example.com",
         password_hash |-> Bcrypt("pa55word"), activated |-> (i = 2),
         version |-> i]]

SeedPermissions ==
    [i \in {1, 2} |-> IF i = 1 THEN <<"movies:read">>
                      ELSE <<"movies:read", "movies:write">>]

SeedTokens ==
    {generateToken(1, ActivationTTL, ScopeActivation, 1, 0),
     generateToken(2, AuthenticationTTL, ScopeAuthentication, 2, 0),
     generateToken(1, ActivationTTL, ScopeActivation, 3, 0),
     generateToken(1, AuthenticationTTL, ScopeAuthentication, 4, 0)}

\* the tables, the clock and the requests when the first request arrives
AuthAtStart ==
    /\ users = SeedUsers
    /\ permissions = SeedPermissions
    /\ tokens = {TokenRow(t) : t \in SeedTokens}
    /\ issued = {Issue(t, 0, IF t.scope = ScopeActivation THEN ActivationTTL
                                ELSE AuthenticationTTL) : t \in SeedTokens}
    /\ lastRand = Cardinality(SeedTokens)
    /\ now = 0
    /\ burned = {}
    /\ areq = [r \in AReqs |-> NewAReq]
    /\ out = NewAReq

NextAuth ==
    \/ Tick
    \/ Served
    \/ \E r \in AReqs :
        \/ routeAuthenticate(r)
        \/ routeRequirePermission(r)
        \/ activateUserHandlerGet(r)
        \/ activateUserHandlerUpdate(r)
        \/ activateUserHandlerDelete(r)
        \/ createAuthenticationTokenHandlerGet(r)
        \/ createAuthenticationTokenHandlerNew(r)
        \/ createActivationTokenHandlerGet(r)
        \/ createActivationTokenHandlerNew(r)
        \/ createActivationTokenHandlerRespond(r)
        \/ activationMail(r)

(***************************************************************************)
(* The rate limiter.  Time is counted in minutes, the period of the        *)
(* sweeping goroutine.  A rate is given by its period, the minutes one      *)
(* token takes: -limiter-rps is 1 / (60 * period).  A limiter's tokens are  *)
(* counted in minutes of refill (credit): one token is `period` of credit.  *)
(***************************************************************************)
\* the client addresses realip.FromRequest returns
IPs == {"10.0.0.1", "10.0.0.2"}

\* the clients idle for more than 3*time.Minute are deleted, and the sweeping
\* goroutine sleeps time.Minute
IdleLimit == 3
SweepEvery == 1

\* the limiter settings the server may be started with
Limiters ==
    [enabled : BOOLEAN, period : 1..MaxPeriod, burst : 1..MaxBurst]

\* rate.NewLimiter(rate.Limit(rps), burst): the bucket starts full
NewLimiter(cfg, t) == [credit |-> cfg.burst * cfg.period, last |-> t]

\* Limiter.Allow, mutant: the token of an allowed request is not taken
AllowKeepsToken(cfg, lim, t) ==
    LET elapsed == IF t < lim.last THEN 0 ELSE t - lim.last
        credit == IF lim.credit + elapsed > cfg.burst * cfg.period
                  THEN cfg.burst * cfg.period ELSE lim.credit + elapsed
    IN  IF 1 <= cfg.burst /\ credit >= cfg.period
        THEN [ok |-> TRUE, limiter |-> [credit |-> credit, last |-> t]]
        ELSE [ok |-> FALSE, limiter |-> lim]

\* Limiter.Allow at time t: the tokens are advanced by the time elapsed since
\* last, capped at burst; with a whole token there the request is allowed and
\* the token taken, else the limiter stays as it was
Allow(cfg, lim, t) ==
    LET elapsed == IF t < lim.last THEN 0 ELSE t - lim.last
        credit == IF lim.credit + elapsed > cfg.burst * cfg.period
                  THEN cfg.burst * cfg.period ELSE lim.credit + elapsed
    IN  IF 1 <= cfg.burst /\ credit >= cfg.period
        THEN [ok |-> TRUE, limiter |-> [credit |-> credit - cfg.period, last |-> t]]
        ELSE [ok |-> FALSE, limiter |-> lim]

\* the handler rateLimit returns, mutant: after the 429 the request still goes
\* on to next
rateLimitFallsThrough(cfg, cl, ip, t) ==
    LET found == ip \in DOMAIN cl
        lim == IF found THEN cl[ip].limiter ELSE NewLimiter(cfg, t)
        res == Allow(cfg, lim, t)
        entry == [limiter |-> res.limiter, lastSeen |-> t]
    IN  IF ~cfg.enabled
        THEN [clients |-> cl, fresh |-> FALSE, checked |-> FALSE, allowed |-> TRUE,
              resp |-> NoResponse, next |-> TRUE]
        ELSE [clients |-> [i \in DOMAIN cl \cup {ip} |-> IF i = ip THEN entry ELSE cl[i]],
              fresh |-> ~found, checked |-> TRUE, allowed |-> res.ok,
              resp |-> IF res.ok THEN NoResponse ELSE rateLimitExceededResponse,
              next |-> TRUE]

\* the handler rateLimit returns, up to its call of next
rateLimit(cfg, cl, ip, t) ==
    LET found == ip \in DOMAIN cl
        lim == IF found THEN cl[ip].limiter ELSE NewLimiter(cfg, t)
        res == Allow(cfg, lim, t)
        entry == [limiter |-> res.limiter, lastSeen |-> t]
    IN  IF ~cfg.enabled
        THEN [clients |-> cl, fresh |-> FALSE, checked |-> FALSE, allowed |-> TRUE,
              resp |-> NoResponse, next |-> TRUE]
        ELSE [clients |-> [i \in DOMAIN cl \cup {ip} |-> IF i = ip THEN entry ELSE cl[i]],
              fresh |-> ~found, checked |-> TRUE, allowed |-> res.ok,
              resp |-> IF res.ok THEN NoResponse ELSE rateLimitExceededResponse,
              next |-> res.ok]

\* one pass of the sweeping goroutine, mutant: a client idle for exactly the
\* three minutes is deleted too
sweepAtThreeMinutes(cl, t) ==
    [i \in {j \in DOMAIN cl : ~(t - cl[j].lastSeen >= IdleLimit)} |-> cl[i]]

\* one pass of the sweeping goroutine over the map
sweep(cl, t) ==
    [i \in {j \in DOMAIN cl : ~(t - cl[j].lastSeen > IdleLimit)} |-> cl[i]]

\* how many requests have gone through rateLimit
Handled == LET a == CHOOSE i \in IPs : TRUE
               b == CHOOSE i \in IPs : i # a
           IN  Len(hist[a]) + Len(hist[b])

\* a request from ip goes through rateLimit
rateLimitRequest(ip) ==
    /\ Handled < MaxRReq
    /\ LET res == rateLimit(limiter, clients, ip, clock)
       IN  /\ clients' = res.clients
           /\ hist' = [hist EXCEPT ![ip] =
                  Append(@, [t |-> clock, fresh |-> res.fresh, checked |-> res.checked,
                             allowed |-> res.allowed, resp |-> res.resp,
                             next |-> res.next])]
    /\ UNCHANGED <<limiter, clock, lastSweep>>

\* the sweeping goroutine wakes up, a minute or more after it last did
sweepClients ==
    /\ clock - lastSweep >= SweepEvery
    /\ clients' = sweep(clients, clock)
    /\ lastSweep' = clock
    /\ UNCHANGED <<limiter, clock, hist>>

\* a minute passes
TickClock ==
    /\ clock < MaxClock
    /\ clock' = clock + 1
    /\ UNCHANGED <<limiter, clients, lastSweep, hist>>

\* the rate limiter of a server that has just started
RateAtStart ==
    /\ clients = [i \in {} |-> [limiter |-> NewLimiter(limiter, 0), lastSeen |-> 0]]
    /\ clock = 0
    /\ lastSweep = 0
    /\ hist = [i \in IPs |-> <<>>]

\* the settings in the specifications whose requests are followed from behind
\* the rate limiter on
FixedLimiter == [enabled |-> TRUE, period |-> 1, burst |-> 1]

NextRate ==
    \/ \E ip \in IPs : rateLimitRequest(ip)
    \/ sweepClients
    \/ TickClock


(***************************************************************************)
(* The mutex of rateLimit.  The handler and the sweeping goroutine are     *)
(* followed statement by statement: each access to the map is a step of    *)
(* its own, and so are mu.Lock and mu.Unlock.                              *)
(***************************************************************************)
LReqs == 1..MaxLReq

\* the sweeping goroutine, as the holder of the mutex
Sweeper == 0

\* a request that has not arrived
NewLReq == [pc |-> "idle", ip |-> "", resp |-> NoResponse, next |-> FALSE]

\* the statements of the handler and of the sweeping goroutine that read or
\* write the map
MapAccess == {"find", "seen", "allow", "range"}

\* a request arrives: with the limiter enabled the handler goes to mu.Lock,
\* else straight to next
rateLimitEnters(h, ip) ==
    /\ lk.h[h].pc = "idle"
    /\ lk' = [lk EXCEPT !.h[h].pc = IF limiter.enabled THEN "lock" ELSE "next",
                        !.h[h].ip = ip]
    /\ UNCHANGED <<mu, rateVars>>

\* mu.Lock() returns to the handler
rateLimitLock(h) ==
    /\ lk.h[h].pc = "lock"
    /\ ~mu.locked
    /\ mu' = [locked |-> TRUE, by |-> h]
    /\ lk' = [lk EXCEPT !.h[h].pc = "find"]
    /\ UNCHANGED rateVars

\* if _, found := clients[ip]; !found { clients[ip] = &client{limiter: ...} }
\* (lastSeen is the zero time until the next statement)
rateLimitFind(h) ==
    /\ lk.h[h].pc = "find"
    /\ LET ip == lk.h[h].ip
       IN  clients' = IF ip \in DOMAIN clients THEN clients
                      ELSE [i \in DOMAIN clients \cup {ip} |->
                               IF i = ip
                               THEN [limiter |-> NewLimiter(limiter, clock), lastSeen |-> 0]
                               ELSE clients[i]]
    /\ lk' = [lk EXCEPT !.h[h].pc = "seen"]
    /\ UNCHANGED <<mu, limiter, clock, lastSweep, hist>>

\* clients[ip].lastSeen = time.Now()
rateLimitSeen(h) ==
    /\ lk.h[h].pc = "seen"
    /\ clients' = [clients EXCEPT ![lk.h[h].ip].lastSeen = clock]
    /\ lk' = [lk EXCEPT !.h[h].pc = "allow"]
    /\ UNCHANGED <<mu, limiter, clock, lastSweep, hist>>

\* where the handler goes after Allow, mutant: the denied request goes to the
\* 429 without mu.Unlock
AfterAllowKeepsLock(ok) == IF ok THEN "unlock" ELSE "deny"

\* where the handler goes after Allow: to the mu.Unlock of the denied request
\* or to the mu.Unlock before next
AfterAllow(ok) == IF ok THEN "unlock" ELSE "unlockDenied"

\* if !clients[ip].limiter.Allow()
rateLimitAllow(h) ==
    /\ lk.h[h].pc = "allow"
    /\ LET ip == lk.h[h].ip
           res == Allow(limiter, clients[ip].limiter, clock)
       IN  /\ clients' = [clients EXCEPT ![ip].limiter = res.limiter]
           /\ lk' = [lk EXCEPT !.h[h].pc = AfterAllow(res.ok)]
    /\ UNCHANGED <<mu, limiter, clock, lastSweep, hist>>

\* mu.Unlock(), of the denied request and of the allowed one
rateLimitUnlock(h) ==
    /\ lk.h[h].pc \in {"unlock", "unlockDenied"}
    /\ mu' = [locked |-> FALSE, by |-> mu.by]
    /\ lk' = [lk EXCEPT !.h[h].pc = IF lk.h[h].pc = "unlock" THEN "next" ELSE "deny"]
    /\ UNCHANGED rateVars

\* app.rateLimitExceededResponse(w, r); return
rateLimitDenies(h) ==
    /\ lk.h[h].pc = "deny"
    /\ lk' = [lk EXCEPT !.h[h].pc = "done", !.h[h].resp = rateLimitExceededResponse]
    /\ UNCHANGED <<mu, rateVars>>

\* next.ServeHTTP(w, r)
rateLimitNext(h) ==
    /\ lk.h[h].pc = "next"
    /\ lk' = [lk EXCEPT !.h[h].pc = "done", !.h[h].next = TRUE]
    /\ UNCHANGED <<mu, rateVars>>

\* time.Sleep(time.Minute) returns to the sweeping goroutine
sweepWakes ==
    /\ lk.sw.pc = "sleep"
    /\ clock - lastSweep >= SweepEvery
    /\ lastSweep' = clock
    /\ lk' = [lk EXCEPT !.sw.pc = "lock"]
    /\ UNCHANGED <<mu, limiter, clients, clock, hist>>

\* mu.Lock() returns to the sweeping goroutine, which starts to range over the
\* map
sweepLock ==
    /\ lk.sw.pc = "lock"
    /\ ~mu.locked
    /\ mu' = [locked |-> TRUE, by |-> Sweeper]
    /\ lk' = [lk EXCEPT !.sw.pc = "range", !.sw.todo = DOMAIN clients]
    /\ UNCHANGED rateVars

\* one turn of the loop: if time.Since(client.lastSeen) > 3*time.Minute
\* { delete(clients, ip) }
sweepVisits(ip) ==
    /\ lk.sw.pc = "range"
    /\ ip \in lk.sw.todo
    /\ clients' = IF clock - clients[ip].lastSeen > IdleLimit
                  THEN [i \in DOMAIN clients \ {ip} |-> clients[i]]
                  ELSE clients
    /\ lk' = [lk EXCEPT !.sw.todo = @ \ {ip}]
    /\ UNCHANGED <<mu, limiter, clock, lastSweep, hist>>

\* the loop is over: mu.Unlock(), and the goroutine sleeps again
sweepUnlock ==
    /\ lk.sw.pc = "range"
    /\ lk.sw.todo = {}
    /\ mu' = [locked |-> FALSE, by |-> mu.by]
    /\ lk' = [lk EXCEPT !.sw.pc = "sleep"]
    /\ UNCHANGED rateVars

\* the mutex is unlocked, no request has arrived and the sweeping goroutine
\* sleeps
LockAtStart ==
    /\ mu = [locked |-> FALSE, by |-> Sweeper]
    /\ lk = [h |-> [r \in LReqs |-> NewLReq], sw |-> [pc |-> "sleep", todo |-> {}]]

NextLock ==
    \/ \E h \in LReqs :
        \/ \E ip \in IPs : rateLimitEnters(h, ip)
        \/ rateLimitLock(h)
        \/ rateLimitFind(h)
        \/ rateLimitSeen(h)
        \/ rateLimitAllow(h)
        \/ rateLimitUnlock(h)
        \/ rateLimitDenies(h)
        \/ rateLimitNext(h)
    \/ sweepWakes
    \/ sweepLock
    \/ \E ip \in IPs : sweepVisits(ip)
    \/ sweepUnlock
    \/ TickClock /\ UNCHANGED lockVars


(***************************************************************************)
(* recoverPanic and enableCORS.  A response is its status, the message of  *)
(* its error envelope and its headers, a set of <<name, value>>.           *)
(***************************************************************************)
\* the origins a request may name ("": no Origin header); the second differs
\* from the first by a trailing slash only
Origins == {"", "https://a.example.com", "https://a.example.com/", "https://b.example.com"}

\* the lists -cors-trusted-origins may give
TrustedLists ==
    {<<>>, <<"https://a.example.com">>, <<"https://b.example.com", "https://a.example.com">>}

\* what the stages behind enableCORS do with a request: they answer, or one
\* of them panics with a value before anything is written
PanicValues == {"missing user value in request context", "unsafe sort parameter: -id;"}

\* the requests: Origin, method, Access-Control-Request-Method, and the panic
\* value of the stages behind enableCORS ("": they answer without a panic)
PipeRequests ==
    [origin : Origins, method : {"GET", "OPTIONS"}, acrm : {"", "PUT"},
     panic : PanicValues \cup {""}]

\* what a stage leaves behind: the response status (0: none written), the
\* message sent, the headers, whether next was reached, whether the stage
\* returned by a panic and with which value, and what was logged
Outcome(status, msg, headers, next, panic, logged) ==
    [status |-> status, msg |-> msg, headers |-> headers, next |-> next,
     panic |-> panic, logged |-> logged]

\* the router and the handlers behind enableCORS
Behind(request, headers) ==
    IF request.panic # "" THEN Outcome(0, "", headers, TRUE, request.panic, "")
    ELSE Outcome(200, "", headers, TRUE, "", "")

\* the index of the first trusted origin equal to origin, 0 if there is none
TrustedIndex(trusted, origin) ==
    IF \E i \in 1..Len(trusted) : trusted[i] = origin
    THEN CHOOSE i \in 1..Len(trusted) :
            trusted[i] = origin /\ \A j \in 1..(i - 1) : trusted[j] # origin
    ELSE 0

\* enableCORS, mutant: an origin is trusted when a trusted origin is a prefix
\* of it (here: up to a trailing slash)
enableCORSPrefix(trusted, request) ==
    LET vary == {<<"Vary", "Origin">>}
        match == \E i \in 1..Len(trusted) :
                    request.origin \in {trusted[i], trusted[i] \o "/"}
        allow == vary \cup {<<"Access-Control-Allow-Origin", request.origin>>}
    IN  IF request.origin # "" /\ match
        THEN IF request.method = "OPTIONS" /\ request.acrm # ""
             THEN Outcome(200, "",
                          allow \cup {<<"Access-Control-Allow-Methods",
                                        "OPTIONS, PUT, PATCH, DELETE">>,
                                      <<"Access-Control-Allow-Headers",
                                        "Authorization, Content-Type">>},
                          FALSE, "", "")
             ELSE Behind(request, allow)
        ELSE Behind(request, vary)

\* enableCORS around the stages behind it
enableCORS(trusted, request) ==
    LET vary == {<<"Vary", "Origin">>}
        allow == vary \cup {<<"Access-Control-Allow-Origin", request.origin>>}
    IN  IF request.origin # "" /\ TrustedIndex(trusted, request.origin) # 0
        THEN IF request.method = "OPTIONS" /\ request.acrm # ""
             THEN Outcome(200, "",
                          allow \cup {<<"Access-Control-Allow-Methods",
                                        "OPTIONS, PUT, PATCH, DELETE">>,
                                      <<"Access-Control-Allow-Headers",
                                        "Authorization, Content-Type">>},
                          FALSE, "", "")
             ELSE Behind(request, allow)
        ELSE Behind(request, vary)

\* recoverPanic, mutant: the 500 carries the panic value
recoverPanicLeaks(trusted, request) ==
    LET o == enableCORS(trusted, request)
    IN  IF o.panic # ""
        THEN Outcome(500, o.panic, o.headers \cup {<<"Connection", "close">>},
                     o.next, "", o.panic)
        ELSE o

\* recoverPanic around the stages behind it: the deferred function recovers
\* the panic, sets Connection: close and calls serverErrorResponse, which logs
\* the value and sends the fixed message
recoverPanic(trusted, request) ==
    LET o == enableCORS(trusted, request)
    IN  IF o.panic # ""
        THEN Outcome(serverErrorResponse.status, serverErrorResponse.msg,
                     o.headers \cup {<<"Connection", "close">>}, o.next, "", o.panic)
        ELSE o

\* a request is served
serveRequest ==
    /\ Len(plog) < MaxPReq
    /\ \E request \in PipeRequests :
        plog' = Append(plog, [request |-> request,
                              outcome |-> recoverPanic(trustedOrigins, request)])
    /\ UNCHANGED trustedOrigins

\* the pipeline of a server that has just started
PipeAtStart == plog = <<>>

\* the settings in the specifications that leave the pipeline alone
FixedOrigins == <<>>

(***************************************************************************)
(* Registration                                                            *)
(***************************************************************************)
Regs == 1..MaxReg

\* the names and passwords a client may send when registering
Names == {"", FullName, LongName}
RegPasswords == {[text |-> "", len |-> 0], [text |-> "short", len |-> 5],
                 [text |-> "pa55word", len |-> 8],
                 [text |-> "73 bytes", len |-> 73]}

\* password.HashPassword: bcrypt.GenerateFromPassword refuses a password of
\* more than 72 bytes with ErrPasswordTooLong
HashPassword(plaintextPassword) ==
    IF plaintextPassword.len > 72 THEN [err |-> "ErrPasswordTooLong", hash |-> <<>>]
    ELSE [err |-> "nil", hash |-> Bcrypt(plaintextPassword.text)]

\* data.ValidateUser on a user whose password has been hashed
ValidateUser(name, email, password) ==
    (IF name = "" THEN {<<"name", "must be provided">>}
     ELSE IF ~(ByteLen(name) <= 500)
     THEN {<<"name", "must not be more than 500 bytes long">>}
     ELSE {})
        \cup ValidateEmail(email) \cup ValidatePasswordPlaintext(password)

\* UserModel.Insert, mutant: the table has no unique constraint on email
UserModelInsertNoUnique(us, email, hash, fault) ==
    LET id == Cardinality(DOMAIN us) + 1
        row == [id |-> id, email |-> email, password_hash |-> hash,
                activated |-> FALSE, version |-> 1]
    IN  IF fault THEN [err |-> "ErrStore", user |-> NoUser, users |-> us]
        ELSE [err |-> "nil", user |-> row, users |-> us @@ (id :> row)]

\* UserModel.Insert: the store numbers the row and sets version 1; the
\* violation of users_email_key comes back as ErrDuplicateEmail
UserModelInsert(us, email, hash, fault) ==
    LET id == Cardinality(DOMAIN us) + 1
        row == [id |-> id, email |-> email, password_hash |-> hash,
                activated |-> FALSE, version |-> 1]
    IN  IF fault THEN [err |-> "ErrStore", user |-> NoUser, users |-> us]
        ELSE IF \E i \in DOMAIN us : us[i].email = email
        THEN [err |-> "ErrDuplicateEmail", user |-> NoUser, users |-> us]
        ELSE [err |-> "nil", user |-> row, users |-> us @@ (id :> row)]

\* the rows of table permissions, in the order of their ids
PermissionsTable == <<"movies:read", "movies:write">>

\* PermissionModel.AddForUser: INSERT INTO users_permissions SELECT $1,
\* permissions.id FROM permissions WHERE permissions.code = ANY($2): one row
\* for each row of table permissions whose code is among codes, and none for
\* a code the table does not hold
AddForUser(perm, userID, codes, fault) ==
    LET granted == SelectSeq(PermissionsTable, LAMBDA c : Include(codes, c))
    IN  IF fault THEN [err |-> "ErrStore", permissions |-> perm]
        ELSE [err |-> "nil",
              permissions |-> IF userID \in DOMAIN perm
                              THEN [perm EXCEPT ![userID] = @ \o granted]
                              ELSE perm @@ (userID :> granted)]

\* a registration request:
\*   pc        "new", "permission" (the user is stored), "token" (the
\*             permission is stored), "done" (answered)
\*   user      the row Insert stored for the request
\*   err       what the last store call returned ("none": no call made)
\*   mailed    the welcome mail has been handed to background
\*   mail      the background task of the welcome mail: "none", "running"
\*             (Send is trying or sleeping between tries), "sent", "failed"
\*             (Send returned its error, which is logged), "panicked" (the
\*             panic was recovered and logged by background)
NewReg == [pc |-> "new", name |-> "", email |-> "", password |-> [text |-> "", len |-> 0],
           user |-> NoUser, resp |-> NoResponse, err |-> "none", mailed |-> FALSE,
           mail |-> "none"]

\* registerUserHandler up to Users.Insert
registerUserHandlerInsert(r) ==
    /\ regs[r].pc = "new" /\ \A q \in 1..(r - 1) : regs[q].pc # "new"
    /\ \E body \in Bodies("email"), name \in Names, email \in Emails,
          password \in RegPasswords, fault \in BOOLEAN :
        LET bad == readJSON(body) # "nil"
            me == [regs[r] EXCEPT !.pc = "done", !.name = name, !.email = email,
                                  !.password = password]
            h == HashPassword(password)
            errors == ValidateUser(name, email, password)
            res == UserModelInsert(users, email, h.hash, fault)
        IN  IF bad \/ h.err # "nil" \/ errors # {}
            THEN /\ regs' = [regs EXCEPT ![r] =
                        IF bad THEN [NewReg EXCEPT !.pc = "done",
                                           !.resp = badRequestResponse(readJSON(body))]
                        ELSE IF h.err # "nil" THEN [me EXCEPT !.resp = serverErrorResponse]
                        ELSE [me EXCEPT !.resp = failedValidationResponse(errors)]]
                 /\ UNCHANGED users
            ELSE /\ users' = res.users
                 /\ regs' = [regs EXCEPT ![r] =
                        IF res.err = "ErrDuplicateEmail"
                        THEN [me EXCEPT !.err = res.err,
                                !.resp = failedValidationResponse(
                                    {<<"email", "a user with this email address already exists">>})]
                        ELSE IF res.err # "nil"
                        THEN [me EXCEPT !.err = res.err, !.resp = serverErrorResponse]
                        ELSE [me EXCEPT !.pc = "permission", !.err = res.err,
                                        !.user = res.user]]
    /\ UNCHANGED <<tokens, permissions, now, lastRand, issued, burned, areq, out>>

\* registerUserHandler: Permissions.AddForUser(user.ID, "movies:read")
registerUserHandlerPermission(r) ==
    /\ regs[r].pc = "permission"
    /\ \E fault \in BOOLEAN :
        LET res == AddForUser(permissions, regs[r].user.id, <<"movies:read">>, fault)
        IN  /\ permissions' = res.permissions
            /\ regs' = [regs EXCEPT ![r] =
                    IF res.err # "nil"
                    THEN [@ EXCEPT !.pc = "done", !.err = res.err,
                                   !.resp = serverErrorResponse]
                    ELSE [@ EXCEPT !.pc = "token", !.err = res.err]]
    /\ UNCHANGED <<users, tokens, now, lastRand, issued, burned, areq, out>>

\* registerUserHandler: Tokens.New and the welcome mail handed to background
registerUserHandlerToken(r) ==
    /\ regs[r].pc = "token"
    /\ \E fault \in BOOLEAN :
        LET res == TokenModelNew(tokens, regs[r].user.id, ActivationTTL,
                                 ScopeActivation, lastRand + 1, now, fault)
        IN  /\ tokens' = res.tokens
            /\ issued' = IF res.err = "nil"
                         THEN issued \cup {Issue(res.token, now, ActivationTTL)}
                         ELSE issued
            /\ regs' = [regs EXCEPT ![r] =
                    IF res.err # "nil"
                    THEN [@ EXCEPT !.pc = "done", !.err = res.err,
                                   !.resp = serverErrorResponse]
                    ELSE [@ EXCEPT !.pc = "respond", !.err = res.err, !.mailed = TRUE,
                                   !.mail = "running"]]
    /\ lastRand' = lastRand + 1
    /\ UNCHANGED <<users, permissions, now, burned, areq, out>>

\* registerUserHandler, mutant: the 202 is written when the mail task has ended
registerUserHandlerRespondWaits(r) ==
    /\ regs[r].pc = "respond" /\ regs[r].mail # "running"
    /\ regs' = [regs EXCEPT ![r] = [@ EXCEPT !.pc = "done", !.err = "nil",
                                             !.resp = OkResponse(202)]]
    /\ UNCHANGED authVars

\* registerUserHandler: writeJSON of the 202 with the user, and the test of
\* err behind it. The closure handed to background assigns the same err
\* variable without synchronisation: when Send fails while the handler is
\* between its assignment and its test, the handler may read the error of the
\* mail and call serverErrorResponse on the response whose status 202 is
\* already written
registerUserHandlerRespond(r) ==
    /\ regs[r].pc = "respond"
    /\ \E raced \in BOOLEAN :
        /\ raced => regs[r].mail = "running"
        /\ regs' = [regs EXCEPT ![r] =
                [@ EXCEPT !.pc = "done", !.resp = OkResponse(202),
                          !.err = IF raced THEN "ErrMail" ELSE "nil",
                          !.mail = IF raced THEN "failed" ELSE @]]
    /\ UNCHANGED authVars

\* the goroutine of background for the welcome mail of registration r ends:
\* Send returned (an error is logged) or fn panicked (recovered and logged)
welcomeMail(r) ==
    /\ regs[r].mail = "running"
    /\ \E delivered \in Deliveries, panics \in BOOLEAN :
        regs' = [regs EXCEPT ![r].mail =
                    IF panics THEN "panicked"
                    ELSE IF MailerSend(delivered) = "nil" THEN "sent"
                    ELSE "failed"]
    /\ UNCHANGED authVars

\* no registration request has arrived
RegAtStart == regs = [r \in Regs |-> NewReg]

(***************************************************************************)
(* serve and background                                                    *)
(***************************************************************************)
Tasks == 1..MaxTasks

\* what fn may do: return (""), or panic with a value
TaskPanics == {"", "runtime error: invalid memory address or nil pointer dereference"}

\* a goroutine of background:
\*   pc      "none", "spawned" (wg.Add(1) and the go statement are done),
\*           "running" (the deferred calls are registered, fn runs), "ended"
\*   panic   the value fn panicked with
\*   dones   how often the goroutine called wg.Done
NoTask == [pc |-> "none", panic |-> "", dones |-> 0]

\* the deferred calls of the goroutine of background, mutant: no recover,
\* the panic goes on through wg.Done and ends the process
backgroundDeferredNoRecover(counter, log, panicValue) ==
    [wg |-> counter - 1, dones |-> 1, log |-> log, crashed |-> panicValue # ""]

\* the deferred calls of the goroutine of background when fn has ended: the
\* recover, which logs the value of a panic, and then wg.Done
backgroundDeferred(counter, log, panicValue) ==
    [wg |-> counter - 1, dones |-> 1,
     log |-> IF panicValue # "" THEN Append(log, panicValue) ELSE log,
     crashed |-> FALSE]

\* the process runs: serve has not returned and no panic has ended it
Alive == mainpc # "returned" /\ ~crashed

\* srv.ListenAndServe binds the address
listens ==
    /\ Alive /\ mainpc = "listen" /\ srv = "new"
    /\ srv' = "listening"
    /\ UNCHANGED <<inflight, wg, tasks, bglog, crashed, sigpc, mainpc, ret>>

\* srv.ListenAndServe fails with an error other than ErrServerClosed: serve
\* returns it
listenFails ==
    /\ Alive /\ mainpc = "listen" /\ srv = "new"
    /\ mainpc' = "returned" /\ ret' = "ErrListen"
    /\ UNCHANGED <<srv, inflight, wg, tasks, bglog, crashed, sigpc>>

\* the server accepts a request
requestStarts ==
    /\ Alive /\ srv = "listening" /\ inflight < MaxInflight
    /\ inflight' = inflight + 1
    /\ UNCHANGED <<srv, wg, tasks, bglog, crashed, sigpc, mainpc, ret>>

\* a handler calls background(fn): wg.Add(1), then the go statement
background(t) ==
    /\ Alive /\ inflight > 0
    /\ tasks[t].pc = "none" /\ \A u \in 1..(t - 1) : tasks[u].pc # "none"
    /\ wg' = wg + 1
    /\ tasks' = [tasks EXCEPT ![t].pc = "spawned"]
    /\ UNCHANGED <<srv, inflight, bglog, crashed, sigpc, mainpc, ret>>

\* a handler returns and its response is written
requestEnds ==
    /\ Alive /\ inflight > 0
    /\ inflight' = inflight - 1
    /\ UNCHANGED <<srv, wg, tasks, bglog, crashed, sigpc, mainpc, ret>>

\* the goroutine of background starts: it registers its deferred calls and
\* calls fn
taskRuns(t) ==
    /\ Alive /\ tasks[t].pc = "spawned"
    /\ tasks' = [tasks EXCEPT ![t].pc = "running"]
    /\ UNCHANGED <<srv, inflight, wg, bglog, crashed, sigpc, mainpc, ret>>

\* fn returns or panics, and the deferred calls run
taskEnds(t) ==
    /\ Alive /\ tasks[t].pc = "running"
    /\ \E panicValue \in TaskPanics :
        LET d == backgroundDeferred(wg, bglog, panicValue)
        IN  /\ wg' = d.wg
            /\ bglog' = d.log
            /\ crashed' = d.crashed
            /\ tasks' = [tasks EXCEPT ![t] = [pc |-> "ended", panic |-> panicValue,
                                              dones |-> @.dones + d.dones]]
    /\ UNCHANGED <<srv, inflight, sigpc, mainpc, ret>>

\* SIGINT or SIGTERM arrives: the goroutine of serve reads it from quit and
\* calls srv.Shutdown, which closes the listener first
signalled ==
    /\ Alive /\ sigpc = "quit"
    /\ sigpc' = "shutdown"
    /\ srv' = "closed"
    /\ UNCHANGED <<inflight, wg, tasks, bglog, crashed, mainpc, ret>>

\* srv.ListenAndServe returns ErrServerClosed and serve goes on to read
\* shutdownError
serveClosed ==
    /\ Alive /\ mainpc = "listen" /\ srv = "closed"
    /\ mainpc' = "recv"
    /\ UNCHANGED <<srv, inflight, wg, tasks, bglog, crashed, sigpc, ret>>

\* srv.Shutdown returns: nil once no request is being handled, the error of
\* the context when its 5 seconds end before that
shutdownReturns ==
    /\ Alive /\ sigpc = "shutdown"
    /\ \E timeout \in BOOLEAN :
        /\ timeout <=> inflight > 0
        /\ sigpc' = IF timeout THEN "senderr" ELSE "wait"
    /\ UNCHANGED <<srv, inflight, wg, tasks, bglog, crashed, mainpc, ret>>

\* shutdownError <- err meets err = <-shutdownError: serve returns err, the
\* goroutine goes on to app.wg.Wait
sendError ==
    /\ Alive /\ sigpc = "senderr" /\ mainpc = "recv"
    /\ sigpc' = "wait"
    /\ mainpc' = "returned" /\ ret' = "ErrShutdown"
    /\ UNCHANGED <<srv, inflight, wg, tasks, bglog, crashed>>

\* app.wg.Wait returns
waitReturns ==
    /\ Alive /\ sigpc = "wait" /\ wg = 0
    /\ sigpc' = "sendnil"
    /\ UNCHANGED <<srv, inflight, wg, tasks, bglog, crashed, mainpc, ret>>

\* shutdownError <- nil meets err = <-shutdownError: serve returns nil
sendNil ==
    /\ Alive /\ sigpc = "sendnil" /\ mainpc = "recv"
    /\ sigpc' = "exit"
    /\ mainpc' = "returned" /\ ret' = "nil"
    /\ UNCHANGED <<srv, inflight, wg, tasks, bglog, crashed>>

\* serve has been called: the goroutine waits for a signal, ListenAndServe
\* is about to bind
ServeAtStart ==
    /\ srv = "new" /\ inflight = 0 /\ wg = 0
    /\ tasks = [t \in Tasks |-> NoTask]
    /\ bglog = <<>> /\ crashed = FALSE
    /\ sigpc = "quit" /\ mainpc = "listen" /\ ret = "none"

(***************************************************************************)
(* Listing movies                                                          *)
(***************************************************************************)
\* the safe list listMoviesHandler puts into the filters
SortSafeList == <<"id", "title", "year", "runtime", "-id", "-title", "-year", "-runtime">>

\* the values of the query parameter sort a client may send; "" is a missing
\* parameter
SortValues == {"", "id", "-id", "title", "-title", "year", "-year", "-runtime",
               "ID", "-id;", "version"}

\* strings.HasPrefix(sort, "-") on the values of SortValues
HasMinusPrefix(sort) == sort \in {"-id", "-title", "-year", "-runtime", "-id;"}

\* strings.TrimPrefix(sort, "-") on the values of SortValues
TrimMinusPrefix(sort) ==
    CASE sort = "-id" -> "id"
      [] sort = "-title" -> "title"
      [] sort = "-year" -> "year"
      [] sort = "-runtime" -> "runtime"
      [] sort = "-id;" -> "id;"
      [] OTHER -> sort

\* validator.In
In(value, list) == \E i \in 1..Len(list) : list[i] = value

\* an integer parameter of the query string: missing, not a number, or a number
QAbsent == [kind |-> "absent", n |-> 0]
QText == [kind |-> "text", n |-> 0]
QNum(n) == [kind |-> "int", n |-> n]

\* among them the numbers just inside and just outside what ValidateFilters
\* accepts
PageValues ==
    {QAbsent, QText} \cup {QNum(n) : n \in (0..MaxPage) \cup {-1, 10000000, 10000001}}
PageSizeValues == {QAbsent} \cup {QNum(n) : n \in {-1, 0, 1, 2, 100, 101}}

\* the query strings of GET /v1/movies
ListQueries ==
    [title : {"", "a", "a b"}, genres : {<<>>, <<"drama">>},
     page : PageValues, page_size : PageSizeValues, sort : SortValues]

\* readString
readString(s, defaultValue) == IF s = "" THEN defaultValue ELSE s

\* readInt: the value and the errors added to the validator
readInt(q, key, defaultValue) ==
    IF q.kind = "absent" THEN [value |-> defaultValue, errors |-> {}]
    ELSE IF q.kind = "text"
    THEN [value |-> defaultValue, errors |-> {<<key, "must be an integer value">>}]
    ELSE [value |-> q.n, errors |-> {}]

\* Filters
Filters(page, pageSize, sort, safeList) ==
    [Page |-> page, PageSize |-> pageSize, Sort |-> sort, SortSafeList |-> safeList]

\* data.ValidateFilters, mutant: the sort value is not checked
ValidateFiltersAnySort(f) ==
    (IF ~(f.Page > 0) THEN {<<"page", "must be greater than zero">>}
     ELSE IF ~(f.Page <= 10000000) THEN {<<"page", "must be a maximum of 10 million">>}
     ELSE {})
    \cup (IF ~(f.PageSize > 0) THEN {<<"page_size", "must be greater than zero">>}
          ELSE IF ~(f.PageSize <= 100) THEN {<<"page_size", "must be a maximum of 100">>}
          ELSE {})

\* data.ValidateFilters: the first message of each key
ValidateFilters(f) ==
    (IF ~(f.Page > 0) THEN {<<"page", "must be greater than zero">>}
     ELSE IF ~(f.Page <= 10000000) THEN {<<"page", "must be a maximum of 10 million">>}
     ELSE {})
    \cup (IF ~(f.PageSize > 0) THEN {<<"page_size", "must be greater than zero">>}
          ELSE IF ~(f.PageSize <= 100) THEN {<<"page_size", "must be a maximum of 100">>}
          ELSE {})
    \cup (IF ~In(f.Sort, f.SortSafeList) THEN {<<"sort", "invalid sort value">>} ELSE {})

\* Validator.AddError after earlier errors: a key keeps its first message
AddErrors(errors, later) ==
    errors \cup {e \in later : \A d \in errors : d[1] # e[1]}

\* Filters.limit
limit(f) == f.PageSize

\* Filters.offset, mutant: the pages are counted from 0
offsetFromPageZero(f) == f.Page * f.PageSize

\* Filters.offset
offset(f) == (f.Page - 1) * f.PageSize

\* Filters.sortColumn: the column, or the panic
sortColumn(f) ==
    IF In(f.Sort, f.SortSafeList)
    THEN [panic |-> <<>>, column |-> TrimMinusPrefix(f.Sort)]
    ELSE [panic |-> <<"unsafe sort parameter: ", f.Sort>>, column |-> ""]

\* Filters.sortDirection
sortDirection(f) == IF HasMinusPrefix(f.Sort) THEN "DESC" ELSE "ASC"

\* Metadata
Metadata(currentPage, pageSize, firstPage, lastPage, totalRecords) ==
    [current_page |-> currentPage, page_size |-> pageSize, first_page |-> firstPage,
     last_page |-> lastPage, total_records |-> totalRecords]

\* calculateMetadata: math.Ceil(totalRecords / PageSize) for the last page
calculateMetadata(totalRecords, page, pageSize) ==
    IF totalRecords = 0 THEN Metadata(0, 0, 0, 0, 0)
    ELSE Metadata(page, pageSize, 1, (totalRecords + pageSize - 1) \div pageSize,
                  totalRecords)

\* the titles of the stored movies in the order of the store's collation
TitleOrder == <<"", "A", "A B", "B">>
TitleRank(title) == CHOOSE i \in 1..Len(TitleOrder) : TitleOrder[i] = title

\* to_tsvector('simple', title) and plainto_tsquery('simple', title): the
\* lower-cased words
Lexemes(title) ==
    CASE title \in {"A", "a"} -> {"a"}
      [] title \in {"B", "b"} -> {"b"}
      [] title \in {"A B", "a b"} -> {"a", "b"}
      [] OTHER -> {}

\* the WHERE clause of GetAll
RowMatches(row, title, genres) ==
    /\ Lexemes(title) \subseteq Lexemes(row.title) \/ title = ""
    /\ (\A i \in 1..Len(genres) : \E j \in 1..Len(row.genres) : row.genres[j] = genres[i])
       \/ genres = <<>>

\* the value of a row in a column of the safe list, as the store compares it
ColumnValue(row, column) ==
    IF column = "title" THEN TitleRank(row.title) ELSE row[column]

\* ORDER BY of GetAll, mutant: without the second key, equal rows come out
\* by descending id
RowBeforeNoTieBreak(a, b, column, direction) ==
    IF ColumnValue(a, column) # ColumnValue(b, column)
    THEN IF direction = "ASC" THEN ColumnValue(a, column) < ColumnValue(b, column)
         ELSE ColumnValue(a, column) > ColumnValue(b, column)
    ELSE a.id > b.id

\* ORDER BY <column> <direction>, id ASC: row a comes before row b
RowBefore(a, b, column, direction) ==
    IF ColumnValue(a, column) # ColumnValue(b, column)
    THEN IF direction = "ASC" THEN ColumnValue(a, column) < ColumnValue(b, column)
         ELSE ColumnValue(a, column) > ColumnValue(b, column)
    ELSE a.id < b.id

\* the rows of a set in the order of ORDER BY
RECURSIVE OrderBy(_, _, _)
OrderBy(rows, column, direction) ==
    IF rows = {} THEN <<>>
    ELSE LET first == CHOOSE a \in rows :
                        \A b \in rows \ {a} : RowBefore(a, b, column, direction)
         IN  <<first>> \o OrderBy(rows \ {first}, column, direction)

\* MovieModel.GetAll: the panic of sortColumn while the query text is built,
\* else the rows LIMIT $3 OFFSET $4 and the metadata from the count(*) OVER()
\* of the rows that were read
GetAll(db, title, genres, filters, fault) ==
    LET col == sortColumn(filters)
        matching == {db[i] : i \in {j \in DOMAIN db : RowMatches(db[j], title, genres)}}
        ordered == OrderBy(matching, col.column, sortDirection(filters))
        page == SubSeq(ordered, offset(filters) + 1,
                       IF offset(filters) + limit(filters) < Len(ordered)
                       THEN offset(filters) + limit(filters) ELSE Len(ordered))
        totalRecords == IF page = <<>> THEN 0 ELSE Cardinality(matching)
    IN  IF col.panic # <<>>
        THEN [panic |-> col.panic, err |-> "none", movies |-> <<>>,
              metadata |-> Metadata(0, 0, 0, 0, 0)]
        ELSE IF fault
        THEN [panic |-> <<>>, err |-> "ErrStore", movies |-> <<>>,
              metadata |-> Metadata(0, 0, 0, 0, 0)]
        ELSE [panic |-> <<>>, err |-> "nil", movies |-> page,
              metadata |-> calculateMetadata(totalRecords, filters.Page, filters.PageSize)]

\* the answer to a GET /v1/movies request:
\*   filters   the filters the handler built
\*   called    GetAll was called
\*   panic     the value GetAll panicked with
NoListed == [query |-> [title |-> "", genres |-> <<>>, page |-> QAbsent,
                        page_size |-> QAbsent, sort |-> ""],
             filters |-> Filters(0, 0, "", <<>>), resp |-> NoResponse,
             movies |-> <<>>, metadata |-> Metadata(0, 0, 0, 0, 0),
             called |-> FALSE, panic |-> <<>>]

\* listMoviesHandler; a panic of GetAll is answered by recoverPanic
listMoviesHandler ==
    /\ listed = NoListed
    /\ \E query \in ListQueries, fault \in BOOLEAN :
        LET page == readInt(query.page, "page", 1)
            pageSize == readInt(query.page_size, "page_size", 20)
            filters == Filters(page.value, pageSize.value,
                               readString(query.sort, "id"), SortSafeList)
            errors == AddErrors(AddErrors(page.errors, pageSize.errors),
                                ValidateFilters(filters))
            res == GetAll(movies, query.title, query.genres, filters, fault)
            me == [NoListed EXCEPT !.query = query, !.filters = filters]
        IN  listed' =
                IF errors # {} THEN [me EXCEPT !.resp = failedValidationResponse(errors)]
                ELSE IF res.panic # <<>>
                THEN [me EXCEPT !.called = TRUE, !.panic = res.panic,
                                !.resp = serverErrorResponse]
                ELSE IF res.err # "nil"
                THEN [me EXCEPT !.called = TRUE, !.resp = serverErrorResponse]
                ELSE [me EXCEPT !.called = TRUE, !.resp = OkResponse(200),
                                !.movies = res.movies, !.metadata = res.metadata]
    /\ UNCHANGED <<movies, lastID, writers, req>>

\* the client has read the answer
listRead ==
    /\ listed # NoListed
    /\ listed' = NoListed
    /\ UNCHANGED <<movies, lastID, writers, req>>

\* the rows of the movie tables GET /v1/movies is asked about
ListRow(id, title, year, runtime, genres) ==
    [id |-> id, created_at |-> id, title |-> title, year |-> year,
     runtime |-> runtime, genres |-> genres, version |-> 1]

ListRows ==
    (1 :> ListRow(1, "B", 1999, 90, <<"drama">>))
    @@ (2 :> ListRow(2, "A", 1999, 120, <<"drama", "comedy">>))
    @@ (3 :> ListRow(3, "A B", 2001, 90, <<"comedy">>))
    @@ (4 :> ListRow(4, "A", 1999, 90, <<"drama">>))

\* the table empty, with four movies, and with two of them deleted
ListTables ==
    {[i \in ids |-> ListRows[i]] : ids \in {{}, {1, 2, 3, 4}, {2, 4}}}

\* no GET /v1/movies request has arrived
ListAtStart == listed = NoListed

(***************************************************************************)
(* One request on its way through the middleware chain                     *)
(***************************************************************************)
\* the order in which the route table wraps the handlers: recoverPanic
\* around metrics around rateLimit around enableCORS around authenticate
\* around the router, and on a guarded route the gates around the handler
StageOrder ==
    <<"recoverPanic", "metrics", "rateLimit", "enableCORS", "authenticate", "gates",
      "handler">>

\* the place of a stage in the order
StagePos(stage) == CHOOSE i \in 1..Len(StageOrder) : StageOrder[i] = stage

\* the stage that the next of a stage is
NextStage(stage) == StageOrder[StagePos(stage) + 1]

\* a route that is not wrapped in a gate
NoCode == "none"

\* the status codes under which metrics tallies the responses
Statuses == {200, 401, 403, 429, 500}

\* the request in the chain:
\*   pc      "idle", the stage that runs next, "return" (a response is
\*           written and the stages return), "recover" (a panic unwinds the
\*           stages), "done"
\*   trace   history: the stages that have run, in the order they were entered
\*   resp    the response written
\*   user    the identity authenticate put into the request context
\*   panic   the value the handler panicked with
NoChain == [pc |-> "idle", trace |-> <<>>, resp |-> NoResponse, user |-> NoUser,
            panic |-> ""]

\* a stage has run: it wrote resp or nothing, and it called next or returned
Left(stage, resp, next) ==
    [chain EXCEPT !.trace = Append(@, stage), !.resp = resp,
                  !.pc = IF next THEN NextStage(stage) ELSE "return"]

\* the server takes a request and calls the outermost stage
requestArrives ==
    /\ chain.pc \in {"idle", "done"}
    /\ expvars.received < MaxCReq
    /\ chain' = [NoChain EXCEPT !.pc = StageOrder[1]]
    /\ UNCHANGED <<expvars, clients>>

\* recoverPanic: the deferred function is set up and next is called
chainRecoverPanic ==
    /\ chain.pc = "recoverPanic"
    /\ chain' = Left("recoverPanic", NoResponse, TRUE)
    /\ UNCHANGED <<expvars, clients>>

\* metrics: total_requests_received is counted and next is called under
\* httpsnoop.CaptureMetrics
chainMetrics ==
    /\ chain.pc = "metrics"
    /\ expvars' = [expvars EXCEPT !.received = @ + 1]
    /\ chain' = Left("metrics", NoResponse, TRUE)
    /\ UNCHANGED clients

\* rateLimit for the ip of the request
chainRateLimit ==
    /\ chain.pc = "rateLimit"
    /\ \E ip \in IPs :
        LET res == rateLimit(limiter, clients, ip, clock)
        IN  /\ clients' = res.clients
            /\ chain' = Left("rateLimit", res.resp, res.next)
    /\ UNCHANGED expvars

\* enableCORS for the Origin, the method and the Access-Control-Request-Method
\* of the request: the 200 of a preflight from a trusted origin, or next
chainEnableCORS ==
    /\ chain.pc = "enableCORS"
    /\ \E request \in {q \in PipeRequests : q.panic = ""} :
        LET o == enableCORS(trustedOrigins, request)
        IN  chain' = Left("enableCORS",
                          IF o.next THEN NoResponse ELSE OkResponse(o.status), o.next)
    /\ UNCHANGED <<expvars, clients>>

\* authenticate for the Authorization header of the request
chainAuthenticate ==
    /\ chain.pc = "authenticate"
    /\ \E hdr \in Headers, fault \in BOOLEAN :
        LET st == authenticate(users, tokens, hdr, now, fault)
        IN  chain' = [Left("authenticate", st.resp, st.next) EXCEPT
                        !.user = IF st.next THEN contextGetUser(st.ctx) ELSE @]
    /\ UNCHANGED <<expvars, clients>>

\* the router hands the request to the route: a handler, or a handler wrapped
\* in requirePermission(code, ...), whose gates run before it
chainGates ==
    /\ chain.pc = "gates"
    /\ \E code \in Codes \cup {NoCode}, fault \in BOOLEAN :
        LET g == requirePermission(code, chain.user, permissions, fault,
                                   Gate(NoResponse, TRUE, FALSE))
        IN  chain' = IF code = NoCode THEN [chain EXCEPT !.pc = NextStage("gates")]
                     ELSE Left("gates", g.resp, g.ran)
    /\ UNCHANGED <<expvars, clients>>

\* the handler of the route answers or panics
chainHandler ==
    /\ chain.pc = "handler"
    /\ \E panic \in PanicValues \cup {""} :
        chain' = IF panic = ""
                 THEN [chain EXCEPT !.trace = Append(@, "handler"),
                                    !.resp = OkResponse(200), !.pc = "return"]
                 ELSE [chain EXCEPT !.trace = Append(@, "handler"),
                                    !.panic = panic, !.pc = "recover"]
    /\ UNCHANGED <<expvars, clients>>

\* the stages return: metrics counts the response under its status
chainReturns ==
    /\ chain.pc = "return"
    /\ expvars' = [expvars EXCEPT !.sent = @ + 1,
                                  !.byStatus[chain.resp.status] = @ + 1]
    /\ chain' = [chain EXCEPT !.pc = "done"]
    /\ UNCHANGED clients

\* the panic passes metrics and reaches the deferred function of
\* recoverPanic: Connection: close and serverErrorResponse
chainRecovers ==
    /\ chain.pc = "recover"
    /\ chain' = [chain EXCEPT !.pc = "done", !.resp = serverErrorResponse]
    /\ UNCHANGED <<expvars, clients>>

\* no request is in the chain and nothing has been counted
ChainAtStart ==
    /\ chain = NoChain
    /\ expvars = [received |-> 0, sent |-> 0, byStatus |-> [c \in Statuses |-> 0]]

\* the store in front of which the chain is followed: user 1 is not
\* activated, user 2 is and may read movies, and both have logged in
ChainTokens ==
    {generateToken(1, AuthenticationTTL, ScopeAuthentication, 1, 0),
     generateToken(2, AuthenticationTTL, ScopeAuthentication, 2, 0)}

\* the movie table and the movie requests at the start
MoviesAtStart(db) ==
    /\ movies = db
    /\ lastID = Cardinality(DOMAIN db)
    /\ writers = [i \in MovieIDs |-> <<>>]
    /\ req = [r \in Reqs |-> NewReq]

InitMovies ==
    /\ \E db \in {[i \in {} |-> NoMovie], [i \in {1} |-> SeedMovie]} : MoviesAtStart(db)
    /\ AuthAtStart
    /\ limiter = FixedLimiter /\ RateAtStart
    /\ trustedOrigins = FixedOrigins /\ PipeAtStart
    /\ RegAtStart
    /\ ServeAtStart
    /\ ListAtStart
    /\ ChainAtStart
    /\ LockAtStart

InitAuth ==
    /\ MoviesAtStart([i \in {} |-> NoMovie])
    /\ AuthAtStart
    /\ limiter = FixedLimiter /\ RateAtStart
    /\ trustedOrigins = FixedOrigins /\ PipeAtStart
    /\ RegAtStart
    /\ ServeAtStart
    /\ ListAtStart
    /\ ChainAtStart
    /\ LockAtStart

InitRate ==
    /\ MoviesAtStart([i \in {} |-> NoMovie])
    /\ AuthAtStart
    /\ limiter \in Limiters /\ RateAtStart
    /\ trustedOrigins = FixedOrigins /\ PipeAtStart
    /\ RegAtStart
    /\ ServeAtStart
    /\ ListAtStart
    /\ ChainAtStart
    /\ LockAtStart

InitPipe ==
    /\ MoviesAtStart([i \in {} |-> NoMovie])
    /\ AuthAtStart
    /\ limiter = FixedLimiter /\ RateAtStart
    /\ trustedOrigins \in TrustedLists /\ PipeAtStart
    /\ RegAtStart
    /\ ServeAtStart
    /\ ListAtStart
    /\ ChainAtStart
    /\ LockAtStart

InitRegister ==
    /\ MoviesAtStart([i \in {} |-> NoMovie])
    /\ AuthAtStart
    /\ limiter = FixedLimiter /\ RateAtStart
    /\ trustedOrigins = FixedOrigins /\ PipeAtStart
    /\ RegAtStart
    /\ ServeAtStart
    /\ ListAtStart
    /\ ChainAtStart
    /\ LockAtStart

InitServe ==
    /\ MoviesAtStart([i \in {} |-> NoMovie])
    /\ AuthAtStart
    /\ limiter = FixedLimiter /\ RateAtStart
    /\ trustedOrigins = FixedOrigins /\ PipeAtStart
    /\ RegAtStart
    /\ ServeAtStart
    /\ ListAtStart
    /\ ChainAtStart
    /\ LockAtStart

\* a table with movies created and deleted before the first request
InitList ==
    /\ movies \in ListTables
    /\ lastID = 4
    /\ writers = [i \in MovieIDs |-> <<>>]
    /\ req = [r \in Reqs |-> NewReq]
    /\ AuthAtStart
    /\ limiter = FixedLimiter /\ RateAtStart
    /\ trustedOrigins = FixedOrigins /\ PipeAtStart
    /\ RegAtStart
    /\ ServeAtStart
    /\ ListAtStart
    /\ ChainAtStart
    /\ LockAtStart

InitChain ==
    /\ MoviesAtStart([i \in {} |-> NoMovie])
    /\ users = SeedUsers
    /\ permissions = [i \in {1, 2} |-> <<"movies:read">>]
    /\ tokens = {TokenRow(t) : t \in ChainTokens}
    /\ issued = {Issue(t, 0, AuthenticationTTL) : t \in ChainTokens}
    /\ lastRand = Cardinality(ChainTokens)
    /\ now = 0
    /\ burned = {}
    /\ areq = [r \in AReqs |-> NewAReq]
    /\ out = NewAReq
    /\ limiter = FixedLimiter /\ RateAtStart
    /\ trustedOrigins = <<"https://a.example.com">> /\ PipeAtStart
    /\ RegAtStart
    /\ ServeAtStart
    /\ ListAtStart
    /\ ChainAtStart
    /\ LockAtStart

NextPipe == serveRequest

NextChain ==
    \/ requestArrives
    \/ chainRecoverPanic
    \/ chainMetrics
    \/ chainRateLimit
    \/ chainEnableCORS
    \/ chainAuthenticate
    \/ chainGates
    \/ chainHandler
    \/ chainReturns
    \/ chainRecovers

NextList == listMoviesHandler \/ listRead

NextServe ==
    \/ listens
    \/ listenFails
    \/ requestStarts
    \/ requestEnds
    \/ signalled
    \/ serveClosed
    \/ shutdownReturns
    \/ sendError
    \/ waitReturns
    \/ sendNil
    \/ \E t \in Tasks :
        \/ background(t)
        \/ taskRuns(t)
        \/ taskEnds(t)

NextRegister ==
    \E r \in Regs :
        \/ registerUserHandlerInsert(r)
        \/ registerUserHandlerPermission(r)
        \/ registerUserHandlerToken(r)
        \/ registerUserHandlerRespond(r)
        \/ welcomeMail(r)

NextMovies ==
    \E r \in Reqs :
        \/ createMovieHandler(r)
        \/ updateMovieHandlerGet(r)
        \/ updateMovieHandlerUpdate(r)
        \/ deleteMovieHandler(r)

\* the movie endpoints, with the user and token tables left alone
SpecMovies ==
    InitMovies /\ [][NextMovies /\ UNCHANGED <<authVars, rateVars, pipeVars, regVars, serveVars, listVars, chainVars, lockVars>>]_vars

\* the user and token endpoints and the guarded routes, with an empty movie table
SpecAuth ==
    InitAuth /\ [][NextAuth /\ UNCHANGED <<movieVars, rateVars, pipeVars, regVars, serveVars, listVars, chainVars, lockVars>>]_vars

\* the rate limiter in front of the routes, with the tables left alone
SpecRate ==
    InitRate /\ [][NextRate /\ UNCHANGED <<movieVars, authVars, pipeVars, regVars, serveVars, listVars, chainVars, lockVars>>]_vars

\* recoverPanic and enableCORS in front of the routes
SpecPipe ==
    InitPipe /\ [][NextPipe /\ UNCHANGED <<movieVars, authVars, rateVars, regVars, serveVars, listVars, chainVars, lockVars>>]_vars

\* POST /v1/users on the store of a running installation
SpecRegister ==
    InitRegister /\ [][NextRegister
                        /\ UNCHANGED <<movieVars, rateVars, pipeVars, serveVars,
                                        listVars, chainVars, lockVars>>]_vars

\* serve from its call to its return, with the handlers' background tasks
SpecServe ==
    InitServe /\ [][NextServe /\ UNCHANGED <<movieVars, authVars, rateVars, pipeVars,
                                            regVars, listVars, chainVars, lockVars>>]_vars

\* one request after the other through the middleware chain
SpecChain ==
    InitChain /\ [][NextChain /\ UNCHANGED <<movieVars, authVars, pipeVars, regVars,
                                            serveVars, listVars, limiter, clock,
                                            lastSweep, hist, lockVars>>]_vars

\* GET /v1/movies on a table that does not change
SpecList ==
    InitList /\ [][NextList /\ UNCHANGED <<authVars, rateVars, pipeVars, regVars,
                                          serveVars, chainVars, lockVars>>]_vars

\* the handler of rateLimit and the sweeping goroutine, statement by statement
InitLock ==
    /\ MoviesAtStart([i \in {} |-> NoMovie])
    /\ AuthAtStart
    /\ limiter \in {FixedLimiter, [FixedLimiter EXCEPT !.enabled = FALSE]} /\ RateAtStart
    /\ trustedOrigins = FixedOrigins /\ PipeAtStart
    /\ RegAtStart
    /\ ServeAtStart
    /\ ListAtStart
    /\ ChainAtStart
    /\ LockAtStart

SpecLock ==
    InitLock /\ [][NextLock /\ UNCHANGED <<movieVars, authVars, pipeVars, regVars,
                                          serveVars, listVars, chainVars>>]_vars

(***************************************************************************)
(* Optimistic concurrency of movie updates                                 *)
(***************************************************************************)
\* request r makes its Movies.Update call in this step and the store answers it
UpdateCall(r) ==
    req[r].pc = "update" /\ req'[r].pc = "done" /\ req'[r].called

\* the mutable columns of a row are those of the in-memory movie m
SameFields(row, m) ==
    /\ row.title = m.title
    /\ row.year = m.year
    /\ row.runtime = m.runtime
    /\ row.genres = m.genres

\* C1: an Update call on a stored movie that the store answers returns
\* ErrEditConflict and leaves the table as it was when the caller's version
\* differs from the stored one; when the versions are equal it returns nil,
\* writes the caller's fields, makes the stored version the old version + 1
\* and reads that version back into the caller's copy.
UpdateStaleOrCurrent ==
    [][\A r \in Reqs :
        (UpdateCall(r) /\ req[r].id \in DOMAIN movies) =>
            LET id == req[r].id IN
            IF movies[id].version # req[r].movie.version
            THEN /\ req'[r].err = "ErrEditConflict"
                 /\ movies' = movies
            ELSE /\ req'[r].err = "nil"
                 /\ DOMAIN movies' = DOMAIN movies
                 /\ \A i \in DOMAIN movies \ {id} : movies'[i] = movies[i]
                 /\ movies'[id].version = movies[id].version + 1
                 /\ movies'[id].id = id
                 /\ movies'[id].created_at = movies[id].created_at
                 /\ SameFields(movies'[id], req'[r].movie)
                 /\ req'[r].movie.version = movies'[id].version]_vars

\* C1 witness: one PATCH was rejected as stale while the row it read is still
\* stored, at the version another PATCH wrote
UpdateStaleOrCurrentWitness ==
    \E r, w \in Reqs :
        /\ req[r].kind = "patch" /\ req[r].called /\ req[r].err = "ErrEditConflict"
        /\ req[w].kind = "patch" /\ req[w].called /\ req[w].err = "nil"
        /\ req[r].id = req[w].id
        /\ req[r].id \in DOMAIN movies
        /\ movies[req[r].id].version = req[r].held + 1

\* the writes to row id that happened after n writes and up to the m-th
WritersBetween(id, n, m) == {writers[id][k] : k \in (n + 1)..m}

\* a and b are PATCH requests on one movie, each has had its Update call
\* answered, and b had done its Get and not yet its Update when a updated
Overlapped(a, b) ==
    /\ a # b
    /\ req[a].kind = "patch" /\ req[a].pc = "done" /\ req[a].called
    /\ req[b].kind = "patch" /\ req[b].pc = "done" /\ req[b].called
    /\ b \in req[a].peers

\* no request other than a and b wrote the movie between the earlier Get and
\* b's Update
Undisturbed(a, b) ==
    LET lo == IF req[a].hGet < req[b].hGet THEN req[a].hGet ELSE req[b].hGet
    IN  WritersBetween(req[a].id, lo, req[b].hUpd) \subseteq {a, b}

\* C2: of two PATCH requests on one movie that both did their Get before
\* either did its Update, never both succeed; when no third request writes
\* the movie in between, both hold the same version v, exactly one Update
\* succeeds (200, version v + 1 in its response) and the other one is
\* answered 409, and until the next write the stored row is the winner's
\* fields at version v + 1.
NoLostUpdate ==
    \A a, b \in Reqs :
        Overlapped(a, b) =>
            /\ ~(req[a].err = "nil" /\ req[b].err = "nil")
            /\ Undisturbed(a, b) =>
                /\ req[a].held = req[b].held
                /\ \E w \in {a, b} :
                    LET l == CHOOSE x \in {a, b} : x # w IN
                    /\ req[w].err = "nil" /\ req[w].resp = 200
                    /\ req[l].err = "ErrEditConflict" /\ req[l].resp = 409
                    /\ req[w].movie.version = req[w].held + 1
                    /\ Len(writers[req[a].id]) = req[b].hUpd =>
                        /\ req[a].id \in DOMAIN movies
                        /\ movies[req[a].id] = req[w].movie

\* C2 witness: two overlapping PATCH requests with different valid bodies have
\* both been answered, the later Update lost, and the row holds what the
\* winner wrote
NoLostUpdateWitness ==
    \E a, b \in Reqs :
        /\ Overlapped(a, b) /\ Undisturbed(a, b)
        /\ req[a].err = "nil" /\ req[b].resp = 409
        /\ req[a].id \in DOMAIN movies
        /\ movies[req[a].id] = req[a].movie
        /\ movies[req[a].id].title = "B"

\* C3: an Update call for a movie that was deleted after the request's Get is
\* answered 409 edit conflict and changes no row; a deleted row never comes back
\* (rows only appear under a fresh id of the serial).
DeletedMeansConflict ==
    [][/\ \A r \in Reqs :
            (UpdateCall(r) /\ req[r].id \notin DOMAIN movies) =>
                /\ req'[r].resp = 409
                /\ req'[r].err = "ErrEditConflict"
                /\ movies' = movies
       /\ \A i \in DOMAIN movies' \ DOMAIN movies : i > lastID]_vars

\* C3 witness: a PATCH read the movie, a DELETE then removed it, and the PATCH
\* was answered 409
DeletedMeansConflictWitness ==
    \E r, d \in Reqs :
        /\ req[r].kind = "patch" /\ req[r].called /\ req[r].resp = 409
        /\ req[d].kind = "delete" /\ req[d].resp = 200 /\ req[d].id = req[r].id
        /\ req[r].hGet < Len(writers[req[r].id])
        /\ writers[req[r].id][req[r].hGet + 1] = d
        /\ req[r].id \notin DOMAIN movies

(***************************************************************************)
(* Tokens, authentication and the authorization gates                      *)
(***************************************************************************)
\* the header "Bearer <plaintext>"
Bearer(plaintext) == Header(2, "Bearer", plaintext)

\* the request just answered went to a guarded route / to the activation endpoint
RouteAnswered == out.kind = "route" /\ out.pc = "done"
ActivateAnswered == out.kind = "activate" /\ out.pc = "done"

\* the validation error of the activation endpoint for a token that is not found
InvalidActivationToken ==
    failedValidationResponse({<<"token", "invalid or expired activation token">>})

\* request r comes through authenticate in this step: it is answered, or it
\* goes on to the query of requirePermission
Authenticates(r) ==
    /\ areq[r].pc = "new"
    /\ \/ areq'[r].pc = "permission"
       \/ areq'[r].pc = "done" /\ out'.kind = "route"

\* the request r as authenticate and the gates behind it leave it
Authenticated(r) == IF areq'[r].pc = "permission" THEN areq'[r] ELSE out'

\* C4: an authentication token issued at t0 with ttl T, sent as a well-formed
\* Bearer credential, passes authenticate with its owner attached while
\* now < t0 + T, and from now >= t0 + T on is answered with 401 "invalid or
\* missing authentication token", the very response a token that never existed
\* gets (whenever the store answers the lookup)
AuthTokenValidUntilExpiry ==
    [][\A r \in AReqs : \A i \in issued :
        (/\ i.scope = ScopeAuthentication
         /\ Authenticates(r) /\ Authenticated(r).hdr = Bearer(i.plaintext)
         /\ Authenticated(r).err # "ErrStore")
        => IF now < i.t0 + i.ttl
           THEN /\ Authenticated(r).next
                /\ Authenticated(r).ctx = <<users[i.user_id]>>
           ELSE /\ ~Authenticated(r).next
                /\ out' = Authenticated(r)
                /\ out'.resp = invalidAuthenticationTokenResponse
                /\ out'.resp.status = 401
                /\ out'.resp.msg = "invalid or missing authentication token"
                /\ out'.resp = authenticate(users, tokens, Bearer(Plaintext(26, 0)),
                                            now, FALSE).resp]_vars

\* a token handed out by a login in this behaviour was presented at its expiry
\* or later and was turned down
AuthTokenValidUntilExpiryWitness ==
    \E i \in issued :
        /\ i.scope = ScopeAuthentication /\ i.t0 > 0
        /\ RouteAnswered /\ out.hdr = Bearer(i.plaintext)
        /\ now >= i.t0 + i.ttl
        /\ out.resp.status = 401 /\ ~out.next

\* the token of the log entry i is stored and has not expired
StoredUnexpired(i) ==
    \E t \in tokens : t.hash = Sum256(i.plaintext) /\ t.expiry > now

\* C5: a stored, unexpired token resolves under no scope but its own:
\* GetTokenUser with another scope returns ErrRecordNotFound; authenticate
\* never passes a request on for an activation token, and the activation
\* endpoint never goes on to activate for an authentication token
TokenOnlyUnderOwnScope ==
    /\ \A i \in issued : \A s \in {ScopeActivation, ScopeAuthentication} :
        (s # i.scope /\ StoredUnexpired(i))
        => GetTokenUser(users, tokens, s, i.plaintext, now, FALSE).err
               = "ErrRecordNotFound"
    /\ \A i \in issued :
        (i.scope = ScopeActivation /\ RouteAnswered /\ out.hdr.token = i.plaintext)
        => (~out.next /\ ~out.ran /\ out.resp.status \in {401, 500})
    /\ \A i \in issued :
        (i.scope = ScopeAuthentication /\ ActivateAnswered /\ out.tok = i.plaintext)
        => /\ out.resp.status \in {422, 500}
           /\ out.err # "ErrStore" => out.resp = InvalidActivationToken
    /\ \A i \in issued : \A r \in AReqs :
        (i.scope = ScopeAuthentication /\ areq[r].kind = "activate")
        => areq[r].tok # i.plaintext

\* a stored, unexpired authentication token was sent to the activation endpoint,
\* which answered that the token is invalid or expired
TokenOnlyUnderOwnScopeWitness ==
    \E i \in issued :
        /\ i.scope = ScopeAuthentication /\ StoredUnexpired(i)
        /\ ActivateAnswered /\ out.tok = i.plaintext
        /\ out.resp = InvalidActivationToken

\* C6: when an activation request is answered with 200 for user U, no
\* activation token of U is stored any more: the one used and every one that
\* was stored for U at one of the handler's store calls; none of them is ever
\* stored again, and an activation request that arrives afterwards with one
\* of them gets the "invalid or expired activation token" validation error
\* (whenever the store answers the lookup)
ActivationDeletesTokens ==
    [][/\ (ActivateAnswered /\ out.resp.status = 200)'
          => /\ ActivationHashes(tokens', out'.user.id) = {}
             /\ Sum256(out'.tok) \in out'.seen
             /\ out'.seen \subseteq burned'
       /\ \A t \in tokens' : t.hash \notin burned'
       /\ \A r \in AReqs :
            (/\ areq[r].pc = "new" /\ areq'[r].pc = "done"
             /\ ActivateAnswered'
             /\ Sum256(out'.tok) \in burned
             /\ out'.err # "ErrStore")
            => /\ out'.resp = InvalidActivationToken
               /\ out'.resp.status = 422
      ]_vars

\* an activation deleted the token it was sent and a sibling, and a later
\* activation request with one of the two was turned down
ActivationDeletesTokensWitness ==
    /\ Cardinality(burned) >= 2
    /\ ActivateAnswered /\ Sum256(out.tok) \in burned
    /\ out.resp = InvalidActivationToken

\* the permission set of a user holds the code
HasPermission(user, code) ==
    /\ user.id \in DOMAIN permissions
    /\ \E k \in 1..Len(permissions[user.id]) : permissions[user.id][k] = code

\* C7: behind requirePermission(code) the handler body runs only for an
\* identity that is not anonymous, is activated and holds the code; an
\* anonymous identity gets 401, else an unactivated one 403 "must be
\* activated", else one without the code 403 "not permitted", and the
\* permission store is not queried for anonymous or unactivated identities
PermissionGateOrder ==
    (RouteAnswered /\ out.next)
    => LET user == out.ctx[Len(out.ctx)]
           anonymous == user = AnonymousUser
       IN  /\ out.ran => (/\ ~anonymous /\ user.activated
                          /\ HasPermission(user, out.code)
                          /\ out.resp.status = 200)
           /\ anonymous
              => (/\ out.resp = authenticationRequiredResponse
                  /\ out.resp.status = 401 /\ ~out.queried /\ ~out.ran)
           /\ (~anonymous /\ ~user.activated)
              => (/\ out.resp = inactivateAccountResponse
                  /\ out.resp.status = 403 /\ ~out.queried /\ ~out.ran)
           /\ (~anonymous /\ user.activated)
              => (/\ out.queried
                  /\ out.perr = "nil" =>
                        IF HasPermission(user, out.code) THEN out.ran
                        ELSE /\ out.resp = notPermittedResponse
                             /\ out.resp.status = 403 /\ ~out.ran)

\* a user who is logged in but not activated asked for a guarded route and was
\* told to activate, without the permission store being queried
PermissionGateOrderWitness ==
    /\ RouteAnswered /\ out.next
    /\ out.user # AnonymousUser /\ ~out.user.activated
    /\ HasPermission(out.user, out.code)
    /\ out.resp = inactivateAccountResponse /\ ~out.queried

\* the Authorization header is exactly "Bearer <token>" with a token that
\* passes ValidateTokenPlaintext
WellFormed(hdr) ==
    hdr.n = 2 /\ hdr.scheme = "Bearer" /\ ValidateTokenPlaintext(hdr.token) = {}

\* C8: authenticate has exactly these outcomes: no header: next is called with
\* the anonymous identity; a header that is not "Bearer <token>" with a valid
\* token plaintext: 401, no lookup, next not called; lookup ErrRecordNotFound:
\* 401, next not called; another lookup error: 500, next not called; lookup
\* success: next is called with the resolved user.  Whenever next is called
\* the request context holds exactly one identity
AuthenticateOutcomes ==
    [][\A r \in AReqs :
        Authenticates(r)
        => LET a == Authenticated(r)
           IN  /\ a.hdr.n = 0
                  => (a.next /\ a.ctx = <<AnonymousUser>> /\ a.err = "none")
               /\ (a.hdr.n # 0 /\ ~WellFormed(a.hdr))
                  => (/\ ~a.next /\ a.err = "none"
                      /\ a.resp = invalidAuthenticationTokenResponse
                      /\ a.resp.status = 401)
               /\ WellFormed(a.hdr)
                  => /\ a.err \in {"ErrRecordNotFound", "ErrStore", "nil"}
                     /\ a.err = "ErrRecordNotFound"
                        => (/\ ~a.next /\ a.resp = invalidAuthenticationTokenResponse
                            /\ a.resp.status = 401)
                     /\ a.err = "ErrStore"
                        => (~a.next /\ a.resp = serverErrorResponse
                            /\ a.resp.status = 500)
                     /\ a.err = "nil"
                        => /\ a.next
                           /\ \E t \in tokens :
                                /\ t.hash = Sum256(a.hdr.token)
                                /\ a.ctx = <<users[t.user_id]>>
               /\ a.next => Len(a.ctx) = 1
               /\ ~a.next => (a.ctx = <<>> /\ a.pc = "done" /\ ~a.ran /\ ~a.queried)]_vars

\* a header with another scheme than Bearer, carrying a token that is good,
\* was answered with 401
AuthenticateOutcomesWitness ==
    /\ RouteAnswered /\ out.hdr.n = 2 /\ out.hdr.scheme # "Bearer"
    /\ \E i \in issued :
        /\ i.scope = ScopeAuthentication /\ StoredUnexpired(i)
        /\ out.hdr.token = i.plaintext
    /\ out.resp.status = 401 /\ ~out.next

(***************************************************************************)
(* The rate limiter                                                        *)
(***************************************************************************)
\* C9: with rate limiting enabled, a request the client's limiter does not
\* allow is answered with 429 and the next handler is not called for it
DeniedNeverReachesNext ==
    \A ip \in IPs : \A k \in 1..Len(hist[ip]) :
        (limiter.enabled /\ ~hist[ip][k].allowed)
        => /\ hist[ip][k].checked
           /\ hist[ip][k].resp = rateLimitExceededResponse
           /\ hist[ip][k].resp.status = 429
           /\ ~hist[ip][k].next

\* a request was denied while another address was being served
DeniedNeverReachesNextWitness ==
    \E ip \in IPs : \E other \in IPs \ {ip} : \E k \in 1..Len(hist[ip]) :
        /\ limiter.enabled /\ ~hist[ip][k].allowed
        /\ hist[ip][k].resp.status = 429
        /\ \E j \in 1..Len(hist[other]) : hist[other][j].next

\* the request s of ip met no entry in the map, it and the B that followed
\* came with no time in between, and the two requests after those, if made,
\* came exactly one period (1/R) later
FreshBurstAt(ip, s) ==
    LET h == hist[ip]
    IN  /\ s \in 1..Len(h) /\ h[s].checked /\ h[s].fresh
        /\ s + limiter.burst <= Len(h)
        /\ h[s + limiter.burst].t = h[s].t

OnePeriodLater(ip, s, k) ==
    LET h == hist[ip]
    IN  /\ s + limiter.burst + k <= Len(h)
        /\ h[s + limiter.burst + k].t = h[s].t + limiter.period

\* C10 as stated: for every address, whatever the other addresses do: the
\* first B back-to-back requests from an address not in the map are allowed,
\* the (B+1)-th with no time elapsed is rejected with 429, and 1/R later with
\* no request in between exactly one more request is allowed
BurstThenExactlyOne ==
    \A ip \in IPs : \A s \in 1..Len(hist[ip]) :
        LET h == hist[ip]
            B == limiter.burst
        IN  (h[s].checked /\ h[s].fresh)
            => /\ \A k \in 0..(B - 1) :
                    (s + k <= Len(h) /\ h[s + k].t = h[s].t) => h[s + k].allowed
               /\ FreshBurstAt(ip, s)
                  => (~h[s + B].allowed /\ h[s + B].resp.status = 429)
               /\ (FreshBurstAt(ip, s) /\ OnePeriodLater(ip, s, 1))
                  => h[s + B + 1].allowed
               /\ (FreshBurstAt(ip, s) /\ OnePeriodLater(ip, s, 1)
                   /\ OnePeriodLater(ip, s, 2))
                  => ~h[s + B + 2].allowed

\* C10, amended: for burst B >= 1 and every address, whatever the other
\* addresses do: the first B back-to-back requests from an address not in the
\* map are allowed, the (B+1)-th with no time elapsed is rejected with 429,
\* and 1/R later with no request in between one more request is allowed; it is
\* the only one unless the sweep has deleted the address in the meantime,
\* which takes 1/R to be more than 3 minutes and makes that request one from
\* an address not in the map
BurstThenOneUnlessSwept ==
    \A ip \in IPs : \A s \in 1..Len(hist[ip]) :
        LET h == hist[ip]
            B == limiter.burst
        IN  (h[s].checked /\ h[s].fresh)
            => /\ \A k \in 0..(B - 1) :
                    (s + k <= Len(h) /\ h[s + k].t = h[s].t)
                    => (h[s + k].allowed /\ h[s + k].next)
               /\ FreshBurstAt(ip, s)
                  => (~h[s + B].allowed /\ h[s + B].resp.status = 429)
               /\ (FreshBurstAt(ip, s) /\ OnePeriodLater(ip, s, 1))
                  => /\ h[s + B + 1].allowed
                     /\ h[s + B + 1].fresh => limiter.period > IdleLimit
               /\ (FreshBurstAt(ip, s) /\ OnePeriodLater(ip, s, 1)
                   /\ OnePeriodLater(ip, s, 2) /\ ~h[s + B + 1].fresh)
                  => ~h[s + B + 2].allowed

\* an address used up its burst, was rejected, came back one period later
\* while the other address was served too, and got one request through and
\* the next rejected
BurstThenOneUnlessSweptWitness ==
    \E ip \in IPs : \E other \in IPs \ {ip} :
        /\ Len(hist[other]) > 0 /\ hist[other][1].t = 0 /\ hist[other][1].allowed
        /\ FreshBurstAt(ip, 1)
        /\ OnePeriodLater(ip, 1, 1) /\ OnePeriodLater(ip, 1, 2)
        /\ hist[ip][limiter.burst + 2].allowed /\ ~hist[ip][limiter.burst + 2].fresh
        /\ ~hist[ip][limiter.burst + 3].allowed

(***************************************************************************)
(* recoverPanic and enableCORS                                             *)
(***************************************************************************)
\* the origin is one of the trusted origins
Trusted(origin) == \E i \in 1..Len(trustedOrigins) : trustedOrigins[i] = origin

\* the request is a preflight request from a trusted origin
TrustedPreflight(request) ==
    Trusted(request.origin) /\ request.method = "OPTIONS" /\ request.acrm # ""

\* C11: when a stage behind recoverPanic panics, the response carries
\* Connection: close and is the 500 with the fixed message, the panic value is
\* logged and not sent, and the server goes on serving: a request after it that
\* meets no panic is answered as if nothing had happened
PanicGives500 ==
    \A k \in 1..Len(plog) :
        LET request == plog[k].request
            o == plog[k].outcome
        IN  IF request.panic # "" /\ ~TrustedPreflight(request)
            THEN /\ o.status = 500
                 /\ o.msg = "the server encountered a problem and could not process your request"
                 /\ o.msg # request.panic
                 /\ <<"Connection", "close">> \in o.headers
                 /\ o.logged = request.panic
                 /\ o.panic = ""
            ELSE /\ o.status = 200
                 /\ <<"Connection", "close">> \notin o.headers
                 /\ o.logged = "" /\ o.panic = ""

\* a request met a panic behind enableCORS and got the 500, and the request
\* after it was answered with 200
PanicGives500Witness ==
    /\ Len(plog) >= 2
    /\ plog[1].request.panic # "" /\ plog[1].outcome.status = 500
    /\ plog[1].outcome.next
    /\ plog[2].request.panic = "" /\ plog[2].outcome.status = 200
    /\ plog[2].outcome.next

\* C20: enableCORS sets Access-Control-Allow-Origin, to the request's Origin,
\* exactly when the Origin equals a trusted origin; a preflight request
\* (OPTIONS with Access-Control-Request-Method) from a trusted origin is
\* answered 200 with the allow-methods and allow-headers headers and does not
\* reach next; every other request reaches next
CORSExactMatch ==
    \A k \in 1..Len(plog) :
        LET request == plog[k].request
            o == plog[k].outcome
            allowed == {h \in o.headers : h[1] = "Access-Control-Allow-Origin"}
        IN  /\ allowed # {} <=> Trusted(request.origin)
            /\ allowed \subseteq {<<"Access-Control-Allow-Origin", request.origin>>}
            /\ <<"Vary", "Origin">> \in o.headers
            /\ TrustedPreflight(request)
               => /\ o.status = 200 /\ ~o.next
                  /\ <<"Access-Control-Allow-Methods", "OPTIONS, PUT, PATCH, DELETE">>
                        \in o.headers
                  /\ <<"Access-Control-Allow-Headers", "Authorization, Content-Type">>
                        \in o.headers
            /\ ~TrustedPreflight(request)
               => /\ o.next
                  /\ \A h \in o.headers :
                        h[1] \notin {"Access-Control-Allow-Methods",
                                     "Access-Control-Allow-Headers"}

\* an origin that differs from a trusted one by a trailing slash sent a
\* preflight request, which went on to next without the allow-origin header,
\* and a trusted origin's preflight was answered at once
CORSExactMatchWitness ==
    \E j \in 1..Len(plog) : \E k \in 1..Len(plog) :
        /\ plog[j].request.origin = "https://a.example.com/"
        /\ Trusted("https://a.example.com")
        /\ plog[j].request.method = "OPTIONS" /\ plog[j].request.acrm # ""
        /\ plog[j].outcome.next
        /\ TrustedPreflight(plog[k].request) /\ ~plog[k].outcome.next

(***************************************************************************)
(* Asking again for an activation token                                    *)
(***************************************************************************)
\* C14: POST /v1/tokens/activation with a well-formed email answers alike, with
\* the 202 of a token sent, whether or not the store holds a user with that
\* email and whether or not that user is activated: every such request the
\* store answered (the lookup found a user or found none, and a token that was
\* asked for was stored) gets the one response
ResendAnswersAlike ==
    (out.kind = "resend" /\ out.err \in {"nil", "ErrRecordNotFound"})
        => out.resp = OkResponse(202)

(***************************************************************************)
(* Registration                                                            *)
(***************************************************************************)
\* what registerUserHandler answers when Insert reports the email as taken
EmailTaken ==
    failedValidationResponse({<<"email", "a user with this email address already exists">>})

\* registration r was parsed, passed HashPassword and ValidateUser, and every
\* store call made for it so far was answered
RegistrationWellFormed(reg) ==
    /\ reg.resp.status # 400
    /\ reg.password.len <= 72
    /\ ValidateUser(reg.name, reg.email, reg.password) = {}
    /\ reg.err # "ErrStore"

\* the store holds at most one user per email, and of two answered well-formed
\* registrations with one email exactly one got the 202, unless the email was
\* taken by a third user before both
OneUserPerEmailNow ==
    /\ \A i \in DOMAIN users : \A j \in DOMAIN users :
            users[i].email = users[j].email => i = j
    /\ \A r \in Regs : \A q \in Regs \ {r} :
            ( /\ regs[r].pc = "done" /\ regs[q].pc = "done"
              /\ regs[r].email = regs[q].email
              /\ RegistrationWellFormed(regs[r]) /\ RegistrationWellFormed(regs[q]) )
            => \/ regs[r].resp = OkResponse(202) /\ regs[q].resp = EmailTaken
               \/ regs[q].resp = OkResponse(202) /\ regs[r].resp = EmailTaken
               \/ /\ regs[r].resp = EmailTaken /\ regs[q].resp = EmailTaken
                  /\ \E i \in DOMAIN users :
                        /\ users[i].email = regs[r].email
                        /\ i \notin {regs[r].user.id, regs[q].user.id}

\* a registration that arrives after one with the same email got its 202
\* stores no user, and is answered 422 with the email error if it is
\* well-formed and the store answers
LaterRegistrationRefused ==
    \A q \in Regs :
        ( /\ regs[q].pc = "new" /\ regs'[q].pc # "new"
          /\ \E r \in Regs : /\ regs[r].resp = OkResponse(202)
                             /\ regs[r].email = regs'[q].email )
        => /\ users' = users
           /\ regs'[q].pc = "done" /\ regs'[q].user = NoUser
           /\ RegistrationWellFormed(regs'[q]) => regs'[q].resp = EmailTaken

\* C12: after any interleaving of registrations the store holds at most one
\* user per email; once a registration with an email got its 202, a later one
\* with that email gets 422 with the email error and stores nothing; of two
\* registrations with one email handled at the same time exactly one succeeds
OneUserPerEmail == []OneUserPerEmailNow /\ [][LaterRegistrationRefused]_vars

\* a registration found its email taken by one that was still being handled:
\* its user was stored, its activation token was not yet
OneUserPerEmailWitness ==
    \E r \in Regs : \E q \in Regs \ {r} :
        /\ regs[r].email = "c@example.com" /\ regs[q].email = "c@example.com"
        /\ regs[r].pc = "token" /\ regs[r].user.id \in DOMAIN users
        /\ regs[q].pc = "done" /\ regs[q].resp = EmailTaken
        /\ regs[q].err = "ErrDuplicateEmail"

\* C13: a registration whose password is empty, shorter than 8 bytes or longer
\* than 72 bytes is answered 422 with a message under "password", and no user
\* is stored for it
BadPasswordRejected ==
    \A r \in Regs :
        ( /\ regs[r].pc # "new" /\ regs[r].resp.status # 400
          /\ (regs[r].password.len < 8 \/ regs[r].password.len > 72) )
        => /\ regs[r].resp.status = 422
           /\ \E e \in regs[r].resp.errors : e[1] = "password"
           /\ regs[r].user = NoUser /\ regs[r].err = "none"

(***************************************************************************)
(* Shutdown and background tasks                                           *)
(***************************************************************************)
\* C15: once a signal has been taken, serve returns, whatever it returns, only
\* when the listener is closed, no request is being handled and every
\* background task has ended
ServeReturnsAfterAll ==
    (mainpc = "returned" /\ sigpc # "quit")
        => srv = "closed" /\ inflight = 0 /\ wg = 0
           /\ \A t \in Tasks : tasks[t].pc \in {"none", "ended"}

\* the background tasks that have been started and have not ended
Unfinished == {t \in Tasks : tasks[t].pc \in {"spawned", "running"}}

\* C16: a task started with background is counted in app.wg from before its
\* goroutine starts until fn has ended, and is taken off exactly once, whether
\* fn returned or panicked; the panic is logged and does not end the process,
\* so once the tasks have ended app.wg.Wait can return
BackgroundCounted ==
    /\ wg = Cardinality(Unfinished)
    /\ \A t \in Tasks : tasks[t].dones = IF tasks[t].pc = "ended" THEN 1 ELSE 0
    /\ \A t \in Tasks : tasks[t].panic # ""
            => \E k \in 1..Len(bglog) : bglog[k] = tasks[t].panic
    /\ Len(bglog) = Cardinality({t \in Tasks : tasks[t].panic # ""})
    /\ ~crashed
    /\ (sigpc = "wait" /\ Unfinished = {} /\ mainpc # "returned") => ENABLED waitReturns

\* the shutdown waited for a task that then panicked, and went on
BackgroundCountedWitness ==
    /\ sigpc = "sendnil"
    /\ \E t \in Tasks : tasks[t].pc = "ended" /\ tasks[t].panic # ""
    /\ \E t \in Tasks : tasks[t].pc = "ended" /\ tasks[t].panic = ""
    /\ wg = 0

(***************************************************************************)
(* Partial updates                                                         *)
(***************************************************************************)
\* C17: a PATCH that is written to the store leaves every one of title, year,
\* runtime and genres that its body does not hold at the value stored before
\* the update, leaves id and created_at as they were and adds 1 to version
PatchChangesOnlyPresent ==
    [][\A r \in Reqs :
        (UpdateCall(r) /\ req'[r].err = "nil") =>
            LET id == req[r].id IN
            /\ id \in DOMAIN movies /\ id \in DOMAIN movies'
            /\ \A f \in {"title", "year", "runtime", "genres"} \ req'[r].body :
                    movies'[id][f] = movies[id][f]
            /\ movies'[id].id = movies[id].id
            /\ movies'[id].created_at = movies[id].created_at
            /\ movies'[id].version = movies[id].version + 1
            /\ \A i \in DOMAIN movies \ {id} : movies'[i] = movies[i]]_vars

\* a PATCH with only a title was written after a PATCH with only a year: the
\* row holds the year of the one and the title of the other
PatchChangesOnlyPresentWitness ==
    \E r, w \in Reqs :
        /\ req[w].kind = "patch" /\ req[w].err = "nil" /\ req[w].body = {"year"}
        /\ req[r].kind = "patch" /\ req[r].err = "nil" /\ req[r].body = {"title"}
        /\ req[r].id = req[w].id /\ req[r].id \in DOMAIN movies
        /\ req[r].held = req[w].held + 1
        /\ movies[req[r].id].title = "B" /\ movies[req[r].id].year = 2000
        /\ movies[req[r].id].runtime = SeedMovie.runtime
        /\ movies[req[r].id].version = req[r].held + 1

(***************************************************************************)
(* Listing movies                                                          *)
(***************************************************************************)
\* pages p, p + 1, ..., last of GetAll, one after the other
RECURSIVE PagesFrom(_, _, _, _, _, _)
PagesFrom(db, title, genres, filters, p, last) ==
    IF p > last THEN <<>>
    ELSE GetAll(db, title, genres, [filters EXCEPT !.Page = p], FALSE).movies
         \o PagesFrom(db, title, genres, filters, p + 1, last)

\* what a sort value sorts by, and whether downwards
SortKey(row, sort) ==
    CASE sort \in {"id", "-id"} -> row.id
      [] sort \in {"title", "-title"} -> TitleRank(row.title)
      [] sort \in {"year", "-year"} -> row.year
      [] sort \in {"runtime", "-runtime"} -> row.runtime
Descending(sort) == sort \in {"-id", "-title", "-year", "-runtime"}

\* C18: for the table, the title, the genres, the sort value and the page size
\* of an answered request, pages 1, 2, ... of GetAll one after the other hold
\* every matching movie exactly once, in the order of the sort column and
\* direction with equal rows by ascending id, and the page that was asked for
\* is rows (p-1)*page_size .. p*page_size-1 of that order
PagesPartitionTheOrder ==
    (listed.called /\ listed.resp = OkResponse(200)) =>
        LET q == listed.query
            f == listed.filters
            matching == {movies[i] : i \in {j \in DOMAIN movies :
                                              RowMatches(movies[j], q.title, q.genres)}}
            all == PagesFrom(movies, q.title, q.genres, f, 1,
                             Cardinality(DOMAIN movies) + 1)
            from == (f.Page - 1) * f.PageSize + 1
            to == IF f.Page * f.PageSize < Len(all) THEN f.Page * f.PageSize ELSE Len(all)
        IN  /\ Len(all) = Cardinality(matching)
            /\ \A m \in matching : \E i \in 1..Len(all) : all[i] = m
            /\ \A i \in 1..Len(all) : \A j \in (i + 1)..Len(all) :
                    IF SortKey(all[i], f.Sort) = SortKey(all[j], f.Sort)
                    THEN all[i].id < all[j].id
                    ELSE IF Descending(f.Sort)
                    THEN SortKey(all[i], f.Sort) > SortKey(all[j], f.Sort)
                    ELSE SortKey(all[i], f.Sort) < SortKey(all[j], f.Sort)
            /\ listed.movies = SubSeq(all, from, to)

\* page 2 of size 2 by year was asked for of four movies, three of one year:
\* it holds the third of them by id and then the movie of the later year
PagesPartitionTheOrderWitness ==
    /\ listed.resp = OkResponse(200)
    /\ listed.filters.Sort = "year" /\ listed.filters.Page = 2
    /\ listed.filters.PageSize = 2
    /\ Len(listed.movies) = 2
    /\ listed.movies[1].id = 4 /\ listed.movies[2].id = 3
    /\ listed.movies[1].year = 1999 /\ listed.movies[2].year = 2001

\* C19: a sort value outside the safe list is answered 422 with the sort
\* error before GetAll is called: GetAll is called with safe sort values only,
\* sortColumn does not panic and hands one of the four columns to the query
UnsafeSortRejected ==
    /\ ( /\ listed # NoListed
         /\ listed.filters.Sort \notin {"id", "title", "year", "runtime",
                                        "-id", "-title", "-year", "-runtime"} )
       => /\ listed.resp.status = 422
          /\ <<"sort", "invalid sort value">> \in listed.resp.errors
          /\ ~listed.called /\ listed.panic = <<>>
    /\ listed.called
       => /\ listed.panic = <<>>
          /\ sortColumn(listed.filters).panic = <<>>
          /\ sortColumn(listed.filters).column \in {"id", "title", "year", "runtime"}

\* a request that was in order but for its sort value -id; was answered 422
\* with the sort error alone
UnsafeSortRejectedWitness ==
    /\ listed.query.sort = "-id;"
    /\ listed.resp = failedValidationResponse({<<"sort", "invalid sort value">>})
    /\ ~listed.called

(***************************************************************************)
(* The version counter of a movie                                          *)
(***************************************************************************)
\* request r updated the movie id in this step
Updated(r, id) ==
    UpdateCall(r) /\ req[r].id = id /\ req'[r].err = "nil"

\* every stored movie is at version 1 + the number of updates written to it
VersionIsOnePlusUpdates ==
    \A id \in DOMAIN movies :
        /\ movies[id].version = 1 + Len(writers[id])
        /\ \A k \in 1..Len(writers[id]) : req[writers[id][k]].kind = "patch"

\* a step gives a new row version 1, adds exactly 1 to the version of a row
\* that an Update was written to, and leaves every other version as it was
VersionStep ==
    /\ \A id \in DOMAIN movies' \ DOMAIN movies : movies'[id].version = 1
    /\ \A id \in DOMAIN movies \cap DOMAIN movies' :
        IF \E r \in Reqs : Updated(r, id)
        THEN movies'[id].version = movies[id].version + 1
        ELSE movies'[id].version = movies[id].version

\* C24: the version of a stored movie is 1 plus the number of successful Update
\* calls on it since its Insert: Insert stores version 1, a successful Update
\* adds exactly 1, and a failed Update, a Get or a validation failure leaves
\* the version alone, so that it never decreases
VersionCountsUpdates == []VersionIsOnePlusUpdates /\ [][VersionStep]_vars

\* a movie has been updated twice and is at version 3, and an Update that held
\* an older version was turned down and changed nothing
VersionCountsUpdatesWitness ==
    \E id \in DOMAIN movies : \E r \in Reqs :
        /\ movies[id].version = 3 /\ Len(writers[id]) = 2
        /\ req[r].kind = "patch" /\ req[r].id = id /\ req[r].called
        /\ req[r].err = "ErrEditConflict"

(***************************************************************************)
(* The metadata of a list of movies                                        *)
(***************************************************************************)
\* C27: the metadata of every answered valid GET /v1/movies request, also of
\* one for a page after the last, has total_records = the number of stored
\* movies that match the title and the genres, and last_page = that number
\* divided by the page size, rounded up; it is empty only when no movie matches
MetadataCountsMatches ==
    (listed.called /\ listed.resp = OkResponse(200)) =>
        LET n == Cardinality({i \in DOMAIN movies :
                                RowMatches(movies[i], listed.query.title,
                                           listed.query.genres)})
            size == listed.filters.PageSize
        IN  /\ listed.metadata.total_records = n
            /\ n > 0 => /\ listed.metadata.last_page * size >= n
                        /\ (listed.metadata.last_page - 1) * size < n
                        /\ listed.metadata.current_page = listed.filters.Page
                        /\ listed.metadata.page_size = size
            /\ n = 0 <=> listed.metadata = Metadata(0, 0, 0, 0, 0)

(***************************************************************************)
(* What a registration that was turned down leaves behind                  *)
(***************************************************************************)
\* C30: a registration answered with anything but 202 has added nothing to
\* the store: no user row, no permission and no token is stored for it
RegistrationAllOrNothing ==
    \A r \in Regs :
        (regs[r].pc = "done" /\ regs[r].resp.status # 202)
        => /\ regs[r].user = NoUser
           /\ \A i \in DOMAIN users \ DOMAIN SeedUsers :
                users[i].email = regs[r].email
                => \E q \in Regs \ {r} : regs[q].user.id = i
           /\ regs[r].user.id \notin DOMAIN permissions
           /\ \A t \in tokens : t.user_id # regs[r].user.id

\* the columns of a row of the tokens table
TokenColumns == {"hash", "user_id", "expiry", "scope"}

\* a lookup of a well-formed plaintext succeeds exactly when a stored row of a
\* stored user carries the SHA-256 of that plaintext, the scope asked for and
\* an expiry still to come
LookupMatchesOnHash(plaintext, scope) ==
    GetTokenUser(users, tokens, scope, plaintext, now, FALSE).err = "nil"
    <=> \E t \in tokens : /\ t.user_id \in DOMAIN users
                          /\ t.hash = Sum256(plaintext)
                          /\ t.scope = scope
                          /\ t.expiry > now

\* C23: the tokens table holds only hashes: every row has the columns hash,
\* user_id, expiry and scope and no plaintext, its hash is a SHA-256 digest
\* of the plaintext New returned, and every lookup matches on the digest of
\* the plaintext that is presented
StoreHoldsOnlyHashes ==
    /\ \A t \in tokens :
        /\ DOMAIN t = TokenColumns
        /\ t.hash[1] = "sha256"
        /\ \E i \in issued : t.hash = Sum256(i.plaintext) /\ t.user_id = i.user_id
                             /\ t.scope = i.scope /\ t.expiry = i.t0 + i.ttl
    /\ \A p \in {Plaintext(26, k) : k \in 0..MaxTokens} :
        \A s \in {ScopeActivation, ScopeAuthentication} : LookupMatchesOnHash(p, s)

\* a token issued while the server runs is stored and its plaintext resolves
StoreHoldsOnlyHashesWitness ==
    \E i \in issued :
        /\ i.t0 > 0
        /\ \E t \in tokens : t.hash = Sum256(i.plaintext)
        /\ GetTokenUser(users, tokens, i.scope, i.plaintext, now, FALSE).err = "nil"

\* the row of the issued activation token i was deleted by the
\* DeleteAllForUser of a successful activation of its user
DeletedByActivation(i) ==
    i.scope = ScopeActivation /\ Sum256(i.plaintext) \in burned

\* a plaintext of 26 characters that was never issued returns
\* ErrRecordNotFound under both scopes
NeverIssuedNotFound ==
    \A p \in {Plaintext(26, k) : k \in 0..MaxTokens} :
        (\A i \in issued : i.plaintext # p)
        => \A s \in {ScopeActivation, ScopeAuthentication} :
            GetTokenUser(users, tokens, s, p, now, FALSE).err = "ErrRecordNotFound"

\* C22 as the claim states it: a token New returned has a plaintext of 26
\* characters that passes ValidateTokenPlaintext, and until its expiry
\* GetTokenUser with its scope and plaintext returns the user it was issued
\* for; a plaintext of 26 characters that was never issued returns
\* ErrRecordNotFound
TokenResolvesUntilExpiry ==
    /\ \A i \in issued :
        LET res == GetTokenUser(users, tokens, i.scope, i.plaintext, now, FALSE)
        IN  /\ i.plaintext.len = 26
            /\ ValidateTokenPlaintext(i.plaintext) = {}
            /\ now < i.t0 + i.ttl
               => (res.err = "nil" /\ res.user = users[i.user_id])
    /\ NeverIssuedNotFound

\* C22: a token New returned without an error has a plaintext of 26
\* characters that passes ValidateTokenPlaintext; GetTokenUser with its scope
\* and plaintext returns the user it was issued for until its expiry or, for
\* an activation token, until a successful activation of its user has
\* deleted the activation tokens of that user, and ErrRecordNotFound from
\* then on; a plaintext of 26 characters that was never issued returns
\* ErrRecordNotFound
TokenRoundTrip ==
    /\ \A i \in issued :
        LET res == GetTokenUser(users, tokens, i.scope, i.plaintext, now, FALSE)
        IN  /\ i.plaintext.len = 26
            /\ ValidateTokenPlaintext(i.plaintext) = {}
            /\ IF now < i.t0 + i.ttl /\ ~DeletedByActivation(i)
               THEN res.err = "nil" /\ res.user = users[i.user_id]
               ELSE res.err = "ErrRecordNotFound"
    /\ NeverIssuedNotFound

\* a token issued by a request resolves a day later, before its expiry; an
\* activation token deleted by an activation no longer resolves before its
\* expiry; and another plaintext of 26 characters has not been issued
TokenRoundTripWitness ==
    /\ \E i \in issued :
        /\ i.t0 > 0 /\ now > i.t0 /\ now < i.t0 + i.ttl
        /\ GetTokenUser(users, tokens, i.scope, i.plaintext, now, FALSE).err = "nil"
        /\ GetTokenUser(users, tokens, i.scope, i.plaintext, now, FALSE).user.id
               = i.user_id
    /\ \E j \in issued :
        /\ DeletedByActivation(j) /\ now < j.t0 + j.ttl
        /\ GetTokenUser(users, tokens, j.scope, j.plaintext, now, FALSE).err
               = "ErrRecordNotFound"
    /\ \E k \in 1..MaxTokens : \A i \in issued : i.plaintext # Plaintext(26, k)

\* a login request has just been answered, with the input it read
LoginAnswered == out.kind = "login" /\ out.input # NoInput

\* a user with the email of the answered login is stored and the password of
\* the login matches its hash
CredentialsGood ==
    \E i \in DOMAIN users : /\ users[i].email = out.input.email
                            /\ users[i].password_hash = Bcrypt(out.input.password.text)

\* the answers of a login whose input passed validation and whose store calls
\* were answered
LoginAnswer ==
    (/\ LoginAnswered
     /\ ValidateEmail(out.input.email) \cup ValidatePasswordPlaintext(out.input.password) = {}
     /\ out.err # "ErrStore")
    => /\ out.resp.status = 201 <=> CredentialsGood
       /\ out.resp.status = 201
          => \E t \in tokens :
                /\ t.hash = Sum256(out.tok) /\ out.tok.rnd = lastRand
                /\ users[t.user_id].email = out.input.email
                /\ t.scope = ScopeAuthentication
                /\ t.expiry = now + AuthenticationTTL
       /\ ~CredentialsGood => out.resp = invalidCredentialsResponse

\* a step that answers a login changes the tokens table exactly when the
\* answer is 201, and then by one row
LoginStores ==
    (out = NewAReq /\ out'.kind = "login")
    => /\ tokens' # tokens <=> out'.resp.status = 201
       /\ tokens \subseteq tokens'
       /\ Cardinality(tokens' \ tokens) <= 1

\* C26: a login with valid input that the store answers is answered 201
\* exactly when a user with the email is stored and the password matches its
\* hash, and then one new authentication token with a ttl of 24 hours is
\* stored for that user; an unknown email and a wrong password both get the
\* 401 "invalid authentication credentials" response, and no token is stored
\* by a login that is not answered 201
LoginIffCredentials == []LoginAnswer /\ [][LoginStores]_vars

\* both refusals have been seen: here the wrong password for a stored user
LoginIffCredentialsWitness ==
    /\ LoginAnswered
    /\ out.input.email = "b@example.com" /\ out.input.password.text = "wrong pw"
    /\ out.user.id = 2
    /\ out.resp = invalidCredentialsResponse

\* an activation request for user u has been answered 200: its
\* DeleteAllForUser removed activation tokens issued to u
ActivationAnswered200(u) ==
    \E i \in issued : /\ i.user_id = u /\ i.scope = ScopeActivation
                      /\ Sum256(i.plaintext) \in burned

\* C28: once an activation request for a user has been answered 200, no
\* activation token of that user is in the tokens table, whatever resend
\* requests for the user are under way
NoActivationTokenAfterActivation ==
    \A u \in DOMAIN users :
        ActivationAnswered200(u) => ActivationHashes(tokens, u) = {}

\* request r is an activation that answers 200 in this step
Activates200(r) ==
    /\ areq[r].kind = "activate" /\ areq[r].pc = "delete"
    /\ areq'[r].pc = "done"
    /\ out'.resp.status = 200

\* an activation that answers 200 presents a token that no activation
\* answered 200 before it has used up, and leaves the version of the user
\* one above the version the token was issued against
ActivatesOnce ==
    \A r \in AReqs :
        Activates200(r)
        => /\ Sum256(areq[r].tok) \notin burned
           /\ \A i \in issued :
                i.plaintext = areq[r].tok
                => users'[i.user_id].version = SeedUsers[i.user_id].version + 1

\* C29: of the activation requests that present the same valid activation
\* token at most one is answered 200, and the version of the user goes up by
\* one in total
SameTokenActivatesOnce == [][ActivatesOnce]_vars

\* the welcome mail of registration r is under way or has ended, in any way
MailStates == {"running", "sent", "failed", "panicked"}

\* a registration that has handed its mail to background can write its
\* response at once, and the response it has written is the 202
RespondsWhateverMail ==
    \A r \in Regs :
        /\ regs[r].pc = "respond"
           => (regs[r].mail \in MailStates /\ ENABLED registerUserHandlerRespond(r))
        /\ (regs[r].pc = "done" /\ regs[r].mailed)
           => (regs[r].resp = OkResponse(202) /\ regs[r].mail \in MailStates)

\* a step in which a welcome mail fails or panics leaves the tables alone
MailLeavesStore ==
    (\E r \in Regs : /\ regs[r].mail = "running"
                     /\ regs'[r].mail \in {"failed", "panicked"})
    => UNCHANGED <<users, permissions, tokens>>

\* C25: the welcome mail of a registration is sent by a background task the
\* response does not wait on: the handler can write the 202 while the mail is
\* still being tried, after it was sent, after it failed and after it
\* panicked, the response is the 202 in each case, and a mail that fails or
\* panics changes no user, permission or token
ResponseDoesNotWaitForMail == []RespondsWhateverMail /\ [][MailLeavesStore]_vars

\* a registration was answered 202 and its mail failed after three tries:
\* the user, the permission and the activation token of it are stored
ResponseDoesNotWaitForMailWitness ==
    \E r \in Regs :
        /\ regs[r].pc = "done" /\ regs[r].resp = OkResponse(202)
        /\ regs[r].mail = "failed" /\ regs[r].err = "nil"
        /\ regs[r].user.id \in DOMAIN users
        /\ regs[r].user.id \in DOMAIN permissions
        /\ \E t \in tokens : t.user_id = regs[r].user.id /\ t.scope = ScopeActivation

\* the stages of the trace are in the fixed order and none is left out but
\* the gates of a route that has none
TraceInOrder ==
    \A i \in 1..Len(chain.trace) :
        \/ chain.trace[i] = StageOrder[i]
        \/ /\ chain.trace[i] = "handler"
           /\ i = StagePos("gates")
           /\ \A j \in 1..(i - 1) : chain.trace[j] = StageOrder[j]

\* a stage is about to run
GoingDown == chain.pc \in {StageOrder[i] : i \in 1..Len(StageOrder)}

\* a stage runs only when every stage before it has run and has called next
\* without writing a response
RunsBehindNext ==
    GoingDown
    => /\ chain.resp = NoResponse /\ chain.panic = ""
       /\ \A i \in 1..(StagePos(chain.pc) - 1) :
            i <= Len(chain.trace) => chain.trace[i] = StageOrder[i]
       /\ Len(chain.trace) >= StagePos(chain.pc) - 2

\* the places where the chain ends before the handler, with their responses
ShortCircuits ==
    (chain.pc \in {"return", "done"} /\ chain.trace[Len(chain.trace)] # "handler")
    => LET last == chain.trace[Len(chain.trace)]
       IN  \/ last = "rateLimit" /\ chain.resp = rateLimitExceededResponse
           \/ last = "enableCORS" /\ chain.resp.status = 200
           \/ last = "authenticate" /\ chain.resp.status \in {401, 500}
           \/ last = "gates" /\ chain.resp.status \in {401, 403, 500}

\* a step runs at most one stage, the one that is next
OneStageAtATime ==
    \/ chain'.trace = chain.trace
    \/ chain'.trace = <<>>
    \/ /\ GoingDown
       /\ chain'.trace = Append(chain.trace, chain.pc)

\* C21: within one request the stages run in the order recoverPanic, metrics,
\* rateLimit, enableCORS, authenticate, the gates of the route, the handler;
\* a stage runs only when every stage before it has called next, and the
\* chain ends before the handler only with the 429 of rateLimit, the 200 of a
\* preflight, a 401, a 403 or a 500
StagesInOrder ==
    [](TraceInOrder /\ RunsBehindNext /\ ShortCircuits) /\ [][OneStageAtATime]_vars

\* a request of a user without the permission of the route has passed five
\* stages and is refused by the gates, after a request that was rate limited
StagesInOrderWitness ==
    /\ chain.pc = "done"
    /\ chain.trace = <<"recoverPanic", "metrics", "rateLimit", "enableCORS",
                       "authenticate", "gates">>
    /\ chain.resp = notPermittedResponse
    /\ expvars.byStatus[429] > 0

\* activation request r is answered in this step, and not with 200
ActivationRefused(r) ==
    /\ areq[r].pc # "done" /\ areq'[r].pc = "done"
    /\ out'.kind = "activate"
    /\ out'.resp.status # 200

\* an activation that is answered with anything but 200 has written nothing
\* to the user: the answering step leaves the users table alone and the
\* request has not come past a Users.Update that returned nil
RefusedActivationWroteNothing ==
    \A r \in AReqs :
        ActivationRefused(r)
        => /\ users' = users
           /\ ~(areq[r].kind = "activate" /\ areq[r].pc = "delete")

\* C31: when an activation request is answered with anything other than 200,
\* a 500 after a failure of DeleteAllForUser included, the activated flag and
\* the version of the user are as they were before the request
FailedActivationLeavesUser == [][RefusedActivationWroteNothing]_vars

\* serve has returned the value it read from shutdownError
Received == mainpc = "returned" /\ ret \in {"nil", "ErrShutdown"}

\* C32: the goroutine that handles the signal sends one value on
\* shutdownError and serve receives it: once serve has returned what it read
\* from the channel the goroutine is past its last send and has no send left
\* that nobody will receive, on the path where srv.Shutdown returns nil and on
\* the path where it returns an error
EverySendIsReceived == Received => sigpc = "exit"

\* goroutine g (a request, or the sweeping goroutine) has locked the mutex and
\* not unlocked it
Holds(g) == mu.locked /\ mu.by = g

\* the goroutines stand where the mutex says: at a map access and at an Unlock
\* with the mutex held, everywhere else without it
MutexFollowsCode ==
    /\ \A h \in LReqs :
        /\ lk.h[h].pc \in MapAccess \cup {"unlock", "unlockDenied"} => Holds(h)
        /\ lk.h[h].pc \in {"idle", "lock", "deny", "next", "done"} => ~Holds(h)
    /\ lk.sw.pc = "range" => Holds(Sweeper)
    /\ lk.sw.pc \in {"sleep", "lock"} => ~Holds(Sweeper)

\* a step that writes the map is taken with the mutex locked, and leaves it so
MapWrittenUnderMutex == clients' # clients => mu.locked /\ mu' = mu

\* C33: the map of the rate limiter is read and written only by a goroutine
\* that holds the mutex, in the handler and in the sweep; the mutex is
\* released on the allowed path, on the denied path and at the end of a
\* sweep, and the next handler and the 429 run with the mutex released
MapOnlyUnderMutex == []MutexFollowsCode /\ [][MapWrittenUnderMutex]_vars

\* a request was denied and has returned, another went on to next, and the
\* sweeping goroutine is in its loop with the mutex
MapOnlyUnderMutexWitness ==
    /\ \E h \in LReqs : lk.h[h].pc = "done" /\ lk.h[h].resp = rateLimitExceededResponse
    /\ \E h \in LReqs : lk.h[h].pc = "done" /\ lk.h[h].next
    /\ lk.sw.pc = "range" /\ Holds(Sweeper) /\ lk.sw.todo # {}

\* a pass of the sweeping goroutine deletes the clients last seen more than
\* three minutes ago, and leaves the others as they are
SweepDeletesIdle ==
    lastSweep' # lastSweep
    => /\ DOMAIN clients' = {i \in DOMAIN clients : clock - clients[i].lastSeen <= IdleLimit}
       /\ \A i \in DOMAIN clients' : clients'[i] = clients[i]

\* a request that goes through the enabled limiter sets lastSeen to the time
\* of the request, allowed or not; with no entry for its address it is
\* allowed, and the limiter made for it has the whole burst less this request
RequestIsSeen ==
    \A ip \in IPs :
        (hist'[ip] # hist[ip] /\ limiter.enabled)
        => LET e == hist'[ip][Len(hist'[ip])]
           IN  /\ ip \in DOMAIN clients' /\ clients'[ip].lastSeen = clock
               /\ e.allowed \/ e.resp = rateLimitExceededResponse
               /\ e.fresh <=> ip \notin DOMAIN clients
               /\ ip \notin DOMAIN clients
                  => /\ e.allowed
                     /\ clients'[ip].limiter.credit
                            = (limiter.burst - 1) * limiter.period

\* C34: each sweep removes from the map exactly the entries whose lastSeen is
\* more than 3 minutes before the sweep and never one seen within the last 3
\* minutes; lastSeen is set on every request of the address, allowed or
\* denied; an address the sweep has removed gets a new limiter with the full
\* burst at its next request
SweepEvictsExactlyIdle == [][SweepDeletesIdle /\ RequestIsSeen]_vars

\* an address was seen at 0, deleted by the sweep of minute 4 and was allowed
\* again as a new one; the other address was allowed at 0 and denied at 1,
\* and that denied request kept it in the map through the same sweep
SweepEvictsExactlyIdleWitness ==
    \E ip \in IPs : \E other \in IPs \ {ip} :
        /\ limiter.enabled /\ limiter.burst = 1
        /\ Len(hist[ip]) = 2
        /\ hist[ip][1].t = 0 /\ hist[ip][2].t = 4
        /\ hist[ip][2].fresh /\ hist[ip][2].allowed
        /\ Len(hist[other]) = 2
        /\ hist[other][1].allowed /\ hist[other][2].t = 1 /\ ~hist[other][2].allowed
        /\ lastSweep = 4
        /\ other \in DOMAIN clients /\ clients[other].lastSeen = 1

\* the requests other than r that wrote r's movie after r's Get and before
\* the answer to r's Update
OtherWrites(r) == WritersBetween(req[r].id, req[r].hGet, req[r].hUpd) \ {r}

\* C35: a PATCH with valid input whose window from its Get to its Update
\* holds no other write to the movie is never answered 409: the version the
\* Update compares is the one the handler's Get read (the body has none), so
\* with the store answering such a request gets 200 and the version it read
\* plus 1, and a 409 means another request wrote the movie inside the window
NoConflictWithoutOtherWrite ==
    \A r \in Reqs :
        (req[r].kind = "patch" /\ req[r].pc = "done")
        => /\ req[r].resp = 409 => OtherWrites(r) # {}
           /\ (req[r].called /\ OtherWrites(r) = {})
              => /\ req[r].resp = 200 /\ req[r].err = "nil"
                 /\ req[r].movie.version = req[r].held + 1

\* a PATCH that read the movie after another PATCH had updated it, and that
\* no request wrote in between, was answered 200 with version 3
NoConflictWithoutOtherWriteWitness ==
    \E r \in Reqs : \E w \in Reqs \ {r} :
        /\ req[r].kind = "patch" /\ req[r].pc = "done" /\ req[r].called
        /\ req[w].kind = "patch" /\ req[w].resp = 200 /\ req[w].id = req[r].id
        /\ req[r].hGet = 1 /\ writers[req[r].id][1] = w
        /\ OtherWrites(r) = {}
        /\ req[r].resp = 200 /\ req[r].held = 2 /\ req[r].movie.version = 3

RECURSIVE TallySum(_)
\* the responses counted in total_responses_sent_by_status under the codes in S
TallySum(S) ==
    IF S = {} THEN 0
    ELSE LET c == CHOOSE x \in S : TRUE
         IN  expvars.byStatus[c] + TallySum(S \ {c})

\* C36: every request counted in total_requests_received is counted once in
\* total_responses_sent and once under its status, the requests whose handler
\* panics included: with no request in the chain the responses sent are as
\* many as the requests received, and the tallies by status add up to them
ReceivedEqualsSentWhenIdle ==
    chain.pc \in {"idle", "done"}
    => /\ expvars.sent = expvars.received
       /\ TallySum(Statuses) = expvars.received

\* request r gets the answer of its Tokens.DeleteAllForUser call in this step
DeleteCall(r) ==
    areq[r].kind = "activate" /\ areq[r].pc = "delete" /\ areq'[r].pc # "delete"

\* what the token of the log entry i resolves to, in the tables us and tk
Resolves(us, tk, i) == GetTokenUser(us, tk, i.scope, i.plaintext, now, FALSE)

\* C37: DeleteAllForUser removes the tokens of the given scope and user id and
\* no other: when an activation of user U is answered 200 the stored tokens
\* are those of before less the activation tokens of U, and every
\* authentication token of U and every token of another user resolves as it
\* did before; a call that fails removes nothing
DeleteTouchesOnlyScopeAndUser ==
    [][\A r \in AReqs :
          DeleteCall(r)
          => IF out'.resp.status = 200
             THEN /\ tokens' = {t \in tokens : ~(/\ t.scope = ScopeActivation
                                                 /\ t.user_id = areq[r].user.id)}
                  /\ \A i \in issued :
                        (i.scope # ScopeActivation \/ i.user_id # areq[r].user.id)
                        => Resolves(users', tokens', i) = Resolves(users, tokens, i)
             ELSE tokens' = tokens]_vars

\* user 1 logged in and was then activated; the authentication token of
\* user 1 and that of user 2 are stored after the activation and resolve to
\* their users, and no activation token of user 1 is left
DeleteTouchesOnlyScopeAndUserWitness ==
    /\ ActivateAnswered /\ out.resp.status = 200 /\ out.user.id = 1
    /\ ActivationHashes(tokens, 1) = {}
    /\ \E i, j \in issued :
        /\ i.scope = ScopeAuthentication /\ i.user_id = 1
        /\ Resolves(users, tokens, i).err = "nil" /\ Resolves(users, tokens, i).user.id = 1
        /\ j.scope = ScopeAuthentication /\ j.user_id = 2
        /\ Resolves(users, tokens, j).err = "nil" /\ Resolves(users, tokens, j).user.id = 2

\* C38: the identity of a request is read from the store at that request: a
\* request with a stored, unexpired authentication token of user U is turned
\* down with 403 by requireActivatedUser while the stored row of U is not
\* activated, and from the step in which the activation writes the row it
\* passes requireActivatedUser with the same token, whenever it was issued
ActivationTakesEffectAtOnce ==
    [][\A r \in AReqs : \A i \in issued :
          (/\ Authenticates(r) /\ Authenticated(r).err = "nil"
           /\ i.scope = ScopeAuthentication
           /\ Authenticated(r).hdr = Bearer(i.plaintext)
           /\ Resolves(users, tokens, i).err = "nil")
          => /\ Authenticated(r).next
             /\ Authenticated(r).ctx = <<users[i.user_id]>>
             /\ Authenticated(r).user = users[i.user_id]
             /\ IF users[i.user_id].activated
                THEN /\ areq'[r].pc = "permission"
                     /\ areq'[r].resp = NoResponse
                ELSE /\ areq'[r].pc = "done"
                     /\ out'.resp = inactivateAccountResponse
                     /\ out'.resp.status = 403
                     /\ ~out'.ran /\ ~out'.queried]_vars

\* user 1 logged in and then sent an activation token; the activation has
\* written the user and not yet answered, and a request with the token of that
\* login has passed requireActivatedUser and reached the handler
ActivationTakesEffectAtOnceWitness ==
    /\ RouteAnswered /\ out.queried /\ out.ran /\ out.resp = OkResponse(200)
    /\ out.user.id = 1 /\ out.user.activated /\ users[1].activated
    /\ \E i \in issued :
        i.scope = ScopeAuthentication /\ i.user_id = 1 /\ out.hdr = Bearer(i.plaintext)
    /\ \E r \in AReqs : areq[r].kind = "activate" /\ areq[r].pc = "delete"

\* the filters of the request just answered
Accepted == ValidateFilters(listed.filters) = {}

\* C39: for the filters ValidateFilters accepts (page from 1 to 10,000,000,
\* page_size from 1 to 100) offset() is (page - 1) * page_size, at least 0 and
\* at most 999,999,900, which a 32-bit int holds, and limit() is from 1 to
\* 100; filters with a page or a page_size below 1 are answered 422 and never
\* reach GetAll
OffsetAndLimitInRange ==
    listed # NoListed
    => /\ Accepted
          => /\ listed.filters.Page \in 1..10000000
             /\ listed.filters.PageSize \in 1..100
             /\ offset(listed.filters)
                    = (listed.filters.Page - 1) * listed.filters.PageSize
             /\ offset(listed.filters) >= 0
             /\ offset(listed.filters) <= 999999900
             /\ offset(listed.filters) <= 2147483647
             /\ limit(listed.filters) \in 1..100
       /\ (listed.filters.Page < 1 \/ listed.filters.PageSize < 1)
          => ~listed.called /\ listed.resp.status = 422
       /\ listed.called => Accepted

\* page 10,000,000 of size 100 was asked for and GetAll answered, with no
\* row: the offset is 999,999,900
OffsetAndLimitInRangeWitness ==
    /\ listed.called /\ listed.resp.status = 200
    /\ listed.filters.Page = 10000000 /\ listed.filters.PageSize = 100
    /\ offset(listed.filters) = 999999900 /\ limit(listed.filters) = 100
    /\ listed.movies = <<>>

====
